---- MODULE Spec2Model ----
(***************************************************************************)
(* Alignment & confidence-scoring engine of ts_contract_alignment:         *)
(* RuleBasedMatcher, SemanticMatcher and AlignmentEngine.                  *)
(*                                                                         *)
(* Floats (confidence, similarity, thresholds) are integers in units of   *)
(* 1/Scale.  Texts are strings; the catalog texts are ASCII, so the        *)
(* Chinese keyword lists only contribute their length.                     *)
(***************************************************************************)
EXTENDS Integers, Sequences, FiniteSets, TLC

\* One unit of confidence is 1/Scale (0.7 is 7000).
Scale == 10000

(***************************************************************************)
(* Strings                                                                 *)
(***************************************************************************)
Digits == {"0", "1", "2", "3", "4", "5", "6", "7", "8", "9"}

UpperToLower ==
    [c \in {"A", "B", "C", "D", "E", "F", "G", "H", "I", "J", "K", "L", "M",
            "N", "O", "P", "Q", "R", "S", "T", "U", "V", "W", "X", "Y", "Z"} |->
        CASE c = "A" -> "a" [] c = "B" -> "b" [] c = "C" -> "c" [] c = "D" -> "d"
          [] c = "E" -> "e" [] c = "F" -> "f" [] c = "G" -> "g" [] c = "H" -> "h"
          [] c = "I" -> "i" [] c = "J" -> "j" [] c = "K" -> "k" [] c = "L" -> "l"
          [] c = "M" -> "m" [] c = "N" -> "n" [] c = "O" -> "o" [] c = "P" -> "p"
          [] c = "Q" -> "q" [] c = "R" -> "r" [] c = "S" -> "s" [] c = "T" -> "t"
          [] c = "U" -> "u" [] c = "V" -> "v" [] c = "W" -> "w" [] c = "X" -> "x"
          [] c = "Y" -> "y" [] c = "Z" -> "z"]

LowerLetters == {UpperToLower[c] : c \in DOMAIN UpperToLower}

\* the character of s at position i (1-based), "" outside the string
CharAt(s, i) == IF i >= 1 /\ i <= Len(s) THEN SubSeq(s, i, i) ELSE ""

\* regex \w on ASCII text
IsWordChar(c) ==
    c \in Digits \cup LowerLetters \cup DOMAIN UpperToLower \cup {"_"}

\* regex \s on ASCII text
IsSpace(c) == c \in {" "}

\* str.lower()
RECURSIVE Lower(_)
Lower(s) ==
    IF Len(s) = 0 THEN ""
    ELSE LET c == SubSeq(s, 1, 1)
         IN  (IF c \in DOMAIN UpperToLower THEN UpperToLower[c] ELSE c)
                 \o Lower(SubSeq(s, 2, Len(s)))

\* str.startswith
StartsWith(s, prefix) ==
    Len(prefix) <= Len(s) /\ SubSeq(s, 1, Len(prefix)) = prefix

\* the Python test `needle in hay` on strings
Contains(hay, needle) ==
    \E i \in 1..(Len(hay) - Len(needle) + 1) :
        SubSeq(hay, i, i + Len(needle) - 1) = needle

\* str.strip() for spaces
RECURSIVE Strip(_)
Strip(s) ==
    IF Len(s) = 0 THEN s
    ELSE IF IsSpace(SubSeq(s, 1, 1)) THEN Strip(SubSeq(s, 2, Len(s)))
    ELSE IF IsSpace(SubSeq(s, Len(s), Len(s))) THEN Strip(SubSeq(s, 1, Len(s) - 1))
    ELSE s

\* end (inclusive) of the maximal run of characters satisfying the class
\* that starts at i; i - 1 when the character at i is not in the class
RECURSIVE RunEnd(_, _, _)
RunEnd(s, i, class) ==
    IF i <= Len(s) /\ SubSeq(s, i, i) \in class THEN RunEnd(s, i + 1, class) ELSE i - 1

WordChars == Digits \cup LowerLetters \cup DOMAIN UpperToLower \cup {"_"}

\* set(re.findall(r'\w+', s))
RECURSIVE WordSetFrom(_, _)
WordSetFrom(s, i) ==
    IF i > Len(s) THEN {}
    ELSE IF IsWordChar(SubSeq(s, i, i))
         THEN LET e == RunEnd(s, i, WordChars)
              IN  {SubSeq(s, i, e)} \cup WordSetFrom(s, e + 1)
         ELSE WordSetFrom(s, i + 1)

WordSet(s) == WordSetFrom(s, 1)

\* regex \b between positions i - 1 and i of s
WordBoundary(s, i) == IsWordChar(CharAt(s, i - 1)) # IsWordChar(CharAt(s, i))

(***************************************************************************)
(* RuleBasedMatcher                                                        *)
(***************************************************************************)
\* MatchRule table: keywords_zh is kept by its length only (the texts of
\* the model are ASCII, and no Chinese keyword occurs in an ASCII text).
Rules ==
    << [name |-> "investment_amount_to_terms",
        term_categories |-> {"investment_amount"},
        clause_categories |-> {"investment_terms"},
        keywords_en |-> <<"investment", "amount", "subscription", "purchase",
                          "capital", "funding", "consideration">>,
        n_keywords_zh |-> 5, base_confidence |-> 8500],
       [name |-> "valuation_to_terms",
        term_categories |-> {"valuation"},
        clause_categories |-> {"investment_terms"},
        keywords_en |-> <<"valuation", "pre-money", "post-money", "enterprise value">>,
        n_keywords_zh |-> 4, base_confidence |-> 8500],
       [name |-> "pricing_to_terms",
        term_categories |-> {"pricing"},
        clause_categories |-> {"investment_terms"},
        keywords_en |-> <<"price", "share price", "conversion price", "issue price">>,
        n_keywords_zh |-> 4, base_confidence |-> 8500],
       [name |-> "board_seats_to_governance",
        term_categories |-> {"board_seats"},
        clause_categories |-> {"governance"},
        keywords_en |-> <<"board", "director", "seat", "composition", "appointment">>,
        n_keywords_zh |-> 4, base_confidence |-> 8500],
       [name |-> "voting_rights_to_governance",
        term_categories |-> {"voting_rights"},
        clause_categories |-> {"governance"},
        keywords_en |-> <<"voting", "vote", "rights", "shareholder", "protective">>,
        n_keywords_zh |-> 5, base_confidence |-> 8500],
       [name |-> "liquidation_pref_to_liquidation",
        term_categories |-> {"liquidation_preference"},
        clause_categories |-> {"liquidation"},
        keywords_en |-> <<"liquidation", "preference", "distribution", "proceeds">>,
        n_keywords_zh |-> 4, base_confidence |-> 9000],
       [name |-> "anti_dilution_to_anti_dilution",
        term_categories |-> {"anti_dilution"},
        clause_categories |-> {"anti_dilution"},
        keywords_en |-> <<"anti-dilution", "dilution", "adjustment", "ratchet", "weighted">>,
        n_keywords_zh |-> 5, base_confidence |-> 9000],
       [name |-> "info_rights_to_info_rights",
        term_categories |-> {"information_rights"},
        clause_categories |-> {"information_rights"},
        keywords_en |-> <<"information", "reporting", "financial", "audit", "inspection">>,
        n_keywords_zh |-> 5, base_confidence |-> 8500],
       [name |-> "closing_conditions_to_closing",
        term_categories |-> {"closing_conditions"},
        clause_categories |-> {"closing"},
        keywords_en |-> <<"closing", "completion", "conditions", "deliverables">>,
        n_keywords_zh |-> 4, base_confidence |-> 8500],
       [name |-> "conditions_precedent_to_closing",
        term_categories |-> {"conditions_precedent"},
        clause_categories |-> {"closing"},
        keywords_en |-> <<"conditions precedent", "preconditions", "prior conditions">>,
        n_keywords_zh |-> 2, base_confidence |-> 8500] >>

TermCategories ==
    {"investment_amount", "valuation", "pricing", "closing_conditions",
     "conditions_precedent", "board_seats", "voting_rights",
     "liquidation_preference", "anti_dilution", "information_rights", "other"}

\* _build_category_mapping: term category -> expected clause categories
CategoryMapping ==
    [tc \in TermCategories |->
        CASE tc \in {"investment_amount", "valuation", "pricing"} -> <<"investment_terms">>
          [] tc \in {"closing_conditions", "conditions_precedent"} -> <<"closing">>
          [] tc \in {"board_seats", "voting_rights"} -> <<"governance">>
          [] tc = "liquidation_preference" -> <<"liquidation">>
          [] tc = "anti_dilution" -> <<"anti_dilution">>
          [] tc = "information_rights" -> <<"information_rights">>
          [] tc = "other" -> <<"miscellaneous">>]

\* get_expected_clause_categories
GetExpectedClauseCategories(term_category) ==
    IF term_category \in DOMAIN CategoryMapping THEN CategoryMapping[term_category] ELSE <<>>

SeqToSet(q) == {q[i] : i \in 1..Len(q)}

StopWords == {"the", "a", "an", "of", "and", "or", "to", "in", "for", "on", "with"}

\* the titles compared as they are written
MatchByTitleCaseSensitive(term, clause) ==
    IF term.title # "" /\ term.title = clause.title THEN 9500 ELSE 0

\* _match_by_title
MatchByTitle(term, clause) ==
    IF term.title = "" \/ clause.title = "" THEN 0
    ELSE LET term_title_lower == Lower(term.title)
             clause_title_lower == Lower(clause.title)
             term_words == WordSet(term_title_lower) \ StopWords
             clause_words == WordSet(clause_title_lower) \ StopWords
             overlap == Cardinality(term_words \cap clause_words)
             union == Cardinality(term_words \cup clause_words)
         IN  IF term_title_lower = clause_title_lower THEN 9500
             ELSE IF Contains(clause_title_lower, term_title_lower) THEN 8500
             ELSE IF Contains(term_title_lower, clause_title_lower) THEN 8000
             ELSE IF term_words = {} \/ clause_words = {} THEN 0
             ELSE IF union > 0 /\ 2 * overlap > union
                  THEN 6000 + ((3000 * overlap) \div union)
             ELSE 0

\* the match of \b(\d+(?:\.\d+)*)\b starting at i: its end, or 0 for no match
RECURSIVE DecimalChainEnd(_, _, _)
DecimalChainEnd(s, i, prevEnd) ==
    \* i is the start of a digit group; prevEnd is the end of the groups
    \* matched so far (0 for none)
    LET e == RunEnd(s, i, Digits)
    IN  IF e < i THEN prevEnd
        ELSE IF CharAt(s, e + 1) = "." /\ CharAt(s, e + 2) \in Digits
             THEN DecimalChainEnd(s, e + 2, e)
        ELSE IF WordBoundary(s, e + 1) THEN e
        ELSE prevEnd

RECURSIVE FindDecimals(_, _)
FindDecimals(s, i) ==
    IF i > Len(s) THEN <<>>
    ELSE IF CharAt(s, i) \in Digits /\ WordBoundary(s, i)
         THEN LET e == DecimalChainEnd(s, i, 0)
              IN  IF e = 0 THEN FindDecimals(s, i + 1)
                  ELSE <<SubSeq(s, i, e)>> \o FindDecimals(s, e + 1)
         ELSE FindDecimals(s, i + 1)

SectionWords == {"article", "section", "clause"}

\* the match of (?:Article|Section|Clause)\s*(\d+) starting at i, ignoring
\* case: <<start of the digits, end of the digits>>, or <<0, 0>>
NamedSectionAt(s, i) ==
    LET rest == Lower(SubSeq(s, i, Len(s)))
        hits == {w \in SectionWords : StartsWith(rest, w)}
    IN  IF hits = {} THEN <<0, 0>>
        ELSE LET w == CHOOSE x \in hits : TRUE
                 d == RunEnd(s, i + Len(w), {" "}) + 1
                 e == RunEnd(s, d, Digits)
             IN  IF e >= d THEN <<d, e>> ELSE <<0, 0>>

RECURSIVE FindNamedSections(_, _)
FindNamedSections(s, i) ==
    IF i > Len(s) THEN <<>>
    ELSE LET m == NamedSectionAt(s, i)
         IN  IF m[1] = 0 THEN FindNamedSections(s, i + 1)
             ELSE <<SubSeq(s, m[1], m[2])>> \o FindNamedSections(s, m[2] + 1)

\* _extract_section_numbers; the third pattern matches Chinese text only
ExtractSectionNumbers(text) == FindDecimals(text, 1) \o FindNamedSections(text, 1)

\* the nested loop of _match_by_number from pair k on (term marker outer)
RECURSIVE NumberPairScan(_, _, _)
NumberPairScan(term_numbers, clause_numbers, k) ==
    IF k > Len(term_numbers) * Len(clause_numbers) THEN 0
    ELSE LET term_num == term_numbers[((k - 1) \div Len(clause_numbers)) + 1]
             clause_num == clause_numbers[((k - 1) % Len(clause_numbers)) + 1]
         IN  IF term_num = clause_num THEN 7500
             ELSE IF StartsWith(term_num, clause_num) \/ StartsWith(clause_num, term_num)
                  THEN 6500
             ELSE NumberPairScan(term_numbers, clause_numbers, k + 1)

\* _match_by_number
MatchByNumber(term, clause) ==
    LET term_numbers == ExtractSectionNumbers(term.raw_text)
        clause_numbers == ExtractSectionNumbers(clause.section_id)
    IN  IF term_numbers = <<>> \/ clause_numbers = <<>> THEN 0
        ELSE NumberPairScan(term_numbers, clause_numbers, 1)

Max(a, b) == IF a >= b THEN a ELSE b
Min(a, b) == IF a <= b THEN a ELSE b

\* confidence of one rule of the table for a clause text (0 if no keyword hits)
RuleConfidence(rule, clause) ==
    LET clause_text_lower == Lower(clause.full_text)
        keyword_matches ==
            Cardinality({i \in 1..Len(rule.keywords_en) :
                            Contains(clause_text_lower, Lower(rule.keywords_en[i]))})
        total_keywords == Len(rule.keywords_en) + rule.n_keywords_zh
    IN  IF total_keywords > 0 /\ keyword_matches > 0
        THEN (rule.base_confidence * (total_keywords + keyword_matches))
                 \div (2 * total_keywords)
        ELSE 0

RECURSIVE MaxOver(_, _)
MaxOver(q, i) == IF i > Len(q) THEN 0 ELSE Max(q[i], MaxOver(q, i + 1))

\* _match_by_keyword
MatchByKeyword(term, clause) ==
    MaxOver([i \in 1..Len(Rules) |->
                IF term.category \in Rules[i].term_categories
                   /\ clause.category \in Rules[i].clause_categories
                THEN RuleConfidence(Rules[i], clause)
                ELSE 0], 1)

\* the boost for keyword overlap without its cap
MatchByCategoryUncapped(term, clause) ==
    IF clause.category \in SeqToSet(GetExpectedClauseCategories(term.category))
    THEN 6000 + 500 * Cardinality({i \in 1..Len(clause.keywords) :
                                      Contains(Lower(term.raw_text), Lower(clause.keywords[i]))})
    ELSE 0

\* _match_by_category
MatchByCategory(term, clause) ==
    IF clause.category \in SeqToSet(GetExpectedClauseCategories(term.category))
    THEN LET term_text_lower == Lower(term.raw_text)
             hits == Cardinality({i \in 1..Len(clause.keywords) :
                                     Contains(term_text_lower, Lower(clause.keywords[i]))})
         IN  Min(8000, 6000 + 500 * hits)
    ELSE 0

NoMatch == [method |-> "none", confidence |-> 0]

\* the strategy with the highest score among those that clear their threshold
MatchTermToClauseBest(term, clause) ==
    LET scores == <<[method |-> "rule_title", confidence |-> MatchByTitle(term, clause),
                     bar |-> 5000],
                    [method |-> "rule_number", confidence |-> MatchByNumber(term, clause),
                     bar |-> 5000],
                    [method |-> "rule_keyword", confidence |-> MatchByKeyword(term, clause),
                     bar |-> 5000],
                    [method |-> "rule_keyword", confidence |-> MatchByCategory(term, clause),
                     bar |-> 4000]>>
        clear == {k \in 1..4 : scores[k].confidence > scores[k].bar}
    IN  IF clear = {} THEN NoMatch
        ELSE LET best == CHOOSE k \in clear :
                             \A j \in clear : scores[j].confidence <= scores[k].confidence
             IN  [method |-> scores[best].method, confidence |-> scores[best].confidence]

\* _match_term_to_clause: the first strategy that clears its threshold
MatchTermToClause(term, clause) ==
    LET title_confidence == MatchByTitle(term, clause)
        number_confidence == MatchByNumber(term, clause)
        keyword_confidence == MatchByKeyword(term, clause)
        category_confidence == MatchByCategory(term, clause)
    IN  IF title_confidence > 5000
           THEN [method |-> "rule_title", confidence |-> title_confidence]
        ELSE IF number_confidence > 5000
           THEN [method |-> "rule_number", confidence |-> number_confidence]
        ELSE IF keyword_confidence > 5000
           THEN [method |-> "rule_keyword", confidence |-> keyword_confidence]
        ELSE IF category_confidence > 4000
           THEN [method |-> "rule_keyword", confidence |-> category_confidence]
        ELSE NoMatch

(***************************************************************************)
(* Documents the engine is run on: extracted terms and analyzed clauses    *)
(***************************************************************************)
NoValue == "<None>"

\* an optional embedding vector: None, or a list of numbers
NoEmbedding == [some |-> FALSE, vec |-> <<>>]
Embedding(v) == [some |-> TRUE, vec |-> v]

TermCatalog ==
    << [id |-> "term_001", category |-> "investment_amount",
        title |-> "Investment Amount",
        raw_text |-> "The total investment amount is USD 10,000,000",
        source_section_id |-> "sec_001"],
       [id |-> "term_002", category |-> "liquidation_preference",
        title |-> "Liquidation Preference",
        raw_text |-> "Liquidation Preference: 1x non-participating",
        source_section_id |-> "sec_001"],
       [id |-> "term_003", category |-> "board_seats",
        title |-> "Board Seats",
        raw_text |-> "Section 2.1: Investor shall have 2 board seats",
        source_section_id |-> "sec_001"],
       [id |-> "term_004", category |-> "anti_dilution",
        title |-> "Anti-Dilution",
        raw_text |-> "Anti-dilution protection: weighted average",
        source_section_id |-> "sec_001"] >>

ClauseCatalog ==
    << [id |-> "clause_001", section_id |-> "sec_001",
        title |-> "Investment Terms", category |-> "investment_terms",
        full_text |-> "The investor shall invest capital in the company.",
        fillable_segments |->
            << [id |-> "seg_001", expected_type |-> "date",
                context_before |-> "closing on", context_after |-> "",
                current_value |-> "YYYY-MM-DD"],
               [id |-> "seg_002", expected_type |-> "currency",
                context_before |-> "investment amount of", context_after |-> "in cash",
                current_value |-> "____"] >>,
        keywords |-> <<"investment", "capital">>,
        semantic_embedding |-> NoEmbedding],
       [id |-> "clause_002", section_id |-> "sec_002",
        title |-> "LIQUIDATION PREFERENCE", category |-> "liquidation",
        full_text |-> "Upon liquidation, preferred shareholders receive...",
        fillable_segments |->
            << [id |-> "seg_003", expected_type |-> "number",
                context_before |-> "liquidation preference of", context_after |-> "times",
                current_value |-> " 2x "] >>,
        keywords |-> <<"liquidation", "preference">>,
        semantic_embedding |-> NoEmbedding],
       [id |-> "clause_003", section_id |-> "1",
        title |-> "Definitions", category |-> "definitions",
        full_text |-> "The following terms shall have the meanings set forth below.",
        fillable_segments |-> <<>>,
        keywords |-> <<"definitions", "terms">>,
        semantic_embedding |-> Embedding(<<4, 3>>)],
       [id |-> "clause_004", section_id |-> "Article 2",
        title |-> "Corporate Governance", category |-> "governance",
        full_text |-> "The company shall be managed by its officers.",
        fillable_segments |->
            << [id |-> "seg_004", expected_type |-> "text",
                context_before |-> "", context_after |-> "",
                current_value |-> NoValue] >>,
        keywords |-> <<"governance">>,
        semantic_embedding |-> Embedding(<<0, 1, 0>>)] >>

TermIds == {TermCatalog[i].id : i \in 1..Len(TermCatalog)}
ClauseIds == {ClauseCatalog[i].id : i \in 1..Len(ClauseCatalog)}

TermOf(id) == TermCatalog[CHOOSE i \in 1..Len(TermCatalog) : TermCatalog[i].id = id]

\* a clause object by its id; an id of no analyzed clause stands for itself
ClauseOf(id) ==
    IF id \in ClauseIds
    THEN ClauseCatalog[CHOOSE i \in 1..Len(ClauseCatalog) : ClauseCatalog[i].id = id]
    ELSE [id |-> id, section_id |-> NoValue, title |-> "", category |-> "miscellaneous",
          full_text |-> "", fillable_segments |-> <<>>, keywords |-> <<>>,
          semantic_embedding |-> NoEmbedding]

\* _match_term_to_clause on the documents of the model, computed once
RuleTable ==
    [t \in TermIds, c \in ClauseIds |-> MatchTermToClause(TermOf(t), ClauseOf(c))]

(***************************************************************************)
(* SemanticMatcher                                                         *)
(***************************************************************************)
\* floor of the square root
RECURSIVE SqrtSearch(_, _, _)
SqrtSearch(n, lo, hi) ==
    IF lo >= hi THEN lo
    ELSE LET mid == (lo + hi + 1) \div 2
         IN  IF mid * mid <= n THEN SqrtSearch(n, mid, hi) ELSE SqrtSearch(n, lo, mid - 1)

ISqrt(n) == SqrtSearch(n, 0, Min(n, 46340))

RECURSIVE Dot(_, _)
Dot(a, b) == IF Len(a) = 0 THEN 0 ELSE a[1] * b[1] + Dot(Tail(a), Tail(b))

\* _cosine_similarity, in units of 1/Scale, rounded toward zero (norms are
\* taken to 1/100; the vectors of the model have whole norms)
CosineSimilarity(vec1, vec2) ==
    IF Len(vec1) # Len(vec2) THEN 0
    ELSE LET dot_product == Dot(vec1, vec2)
             norm1 == ISqrt(Dot(vec1, vec1) * Scale)
             norm2 == ISqrt(Dot(vec2, vec2) * Scale)
             mag == IF dot_product < 0 THEN 0 - dot_product ELSE dot_product
             q == (((mag * Scale * 100) \div norm1) * 100) \div norm2
         IN  IF norm1 = 0 \/ norm2 = 0 THEN 0
             ELSE IF dot_product < 0 THEN 0 - q ELSE q

\* what the injected sentence-embedding model returns for a text
EncodedText(text) ==
    CASE text = TermCatalog[1].raw_text -> <<3, 4>>
      [] text = TermCatalog[2].raw_text -> <<1, 0>>
      [] text = TermCatalog[3].raw_text -> <<0, 1>>
      [] text = TermCatalog[4].raw_text -> <<4, 3>>
      [] text = ClauseCatalog[1].full_text -> <<3, 4>>
      [] text = ClauseCatalog[2].full_text -> <<-1, 0>>
      [] text = ClauseCatalog[3].full_text -> <<0, 0>>
      [] text = ClauseCatalog[4].full_text -> <<0, 2>>
      [] OTHER -> <<0, 0>>

\* the injected embedding models: none, one that encodes every text, one
\* that raises at every call, one that raises on clause texts only
EmbeddingModels == {NoValue, "encoder", "broken", "terms_only"}

IsTermText(text) == \E i \in 1..Len(TermCatalog) : TermCatalog[i].raw_text = text

\* embedding_model.encode(text) raises
EncodeRaises(embedding_model, text) ==
    CASE embedding_model = "encoder" -> FALSE
      [] embedding_model = "terms_only" -> ~IsTermText(text)
      [] OTHER -> TRUE

\* _generate_embedding: the embedding, or None
GenerateEmbedding(sm, text) ==
    IF sm.embedding_model = NoValue THEN NoEmbedding
    ELSE IF EncodeRaises(sm.embedding_model, text) THEN NoEmbedding
    ELSE Embedding(EncodedText(text))

\* is_available
IsAvailable(sm) == sm.embedding_model # NoValue

\* a sort that puts a later element before the earlier ones of its confidence
RECURSIVE InsertDescBeforeEqual(_, _)
InsertDescBeforeEqual(sorted, x) ==
    IF Len(sorted) = 0 THEN <<x>>
    ELSE IF Head(sorted).confidence > x.confidence
         THEN <<Head(sorted)>> \o InsertDescBeforeEqual(Tail(sorted), x)
         ELSE <<x>> \o sorted

\* list.sort(key=confidence, reverse=True): stable, descending
RECURSIVE InsertDesc(_, _)
InsertDesc(sorted, x) ==
    IF Len(sorted) = 0 THEN <<x>>
    ELSE IF Head(sorted).confidence >= x.confidence
         THEN <<Head(sorted)>> \o InsertDesc(Tail(sorted), x)
         ELSE <<x>> \o sorted

RECURSIVE SortDesc(_)
SortDesc(q) ==
    IF Len(q) = 0 THEN <<>>
    ELSE InsertDesc(SortDesc(SubSeq(q, 1, Len(q) - 1)), q[Len(q)])

Take(q, n) == SubSeq(q, 1, Min(n, Len(q)))

\* the embedding _match_in_memory uses for a clause: the precomputed one,
\* else one generated on the fly (None: the clause is skipped)
ClauseEmbedding(sm, clause) ==
    IF clause.semantic_embedding.some THEN clause.semantic_embedding
    ELSE GenerateEmbedding(sm, clause.full_text)

RECURSIVE InMemoryResults(_, _, _, _)
InMemoryResults(sm, term_embedding, clauses, i) ==
    IF i > Len(clauses) THEN <<>>
    ELSE LET clause_embedding == ClauseEmbedding(sm, ClauseOf(clauses[i]))
             similarity == CosineSimilarity(term_embedding.vec, clause_embedding.vec)
             rest == InMemoryResults(sm, term_embedding, clauses, i + 1)
         IN  IF clause_embedding.some /\ similarity >= sm.similarity_threshold
             THEN <<[clause_id |-> clauses[i], method |-> "semantic",
                     confidence |-> similarity]>> \o rest
             ELSE rest

\* _match_in_memory
MatchInMemory(sm, term_embedding, clauses, max_results) ==
    Take(SortDesc(InMemoryResults(sm, term_embedding, clauses, 1)), max_results)

\* every row of the vector-search backend becomes a candidate
RECURSIVE MapRowsUnfiltered(_, _, _)
MapRowsUnfiltered(rows, clauses, i) ==
    IF i > Len(rows) THEN <<>>
    ELSE <<[clause_id |-> rows[i].clause_id, method |-> "semantic",
            confidence |-> rows[i].similarity]>> \o MapRowsUnfiltered(rows, clauses, i + 1)

\* the rows of the vector-search backend that name a supplied clause
RECURSIVE MapRows(_, _, _)
MapRows(rows, clauses, i) ==
    IF i > Len(rows) THEN <<>>
    ELSE LET rest == MapRows(rows, clauses, i + 1)
         IN  IF rows[i].clause_id \in SeqToSet(clauses)
             THEN <<[clause_id |-> rows[i].clause_id, method |-> "semantic",
                     confidence |-> rows[i].similarity]>> \o rest
             ELSE rest

\* the injected vector-search backend: absent, or one that raises at some
\* call of a query, or one whose fetchall returns rows
NoDb == [present |-> FALSE, raises |-> FALSE, rows |-> <<>>]
BrokenDb == [present |-> TRUE, raises |-> TRUE, rows |-> <<>>]
DbReturning(rows) == [present |-> TRUE, raises |-> FALSE, rows |-> rows]

\* the local ranking stands in when the backend returns no row
MatchWithPgvectorLocalWhenEmpty(sm, term_embedding, clauses, max_results) ==
    IF ~sm.db_connection.present THEN <<>>
    ELSE IF sm.db_connection.raises \/ sm.db_connection.rows = <<>>
         THEN MatchInMemory(sm, term_embedding, clauses, max_results)
    ELSE MapRows(sm.db_connection.rows, clauses, 1)

\* _match_with_pgvector
MatchWithPgvector(sm, term_embedding, clauses, max_results) ==
    IF ~sm.db_connection.present THEN <<>>
    ELSE IF sm.db_connection.raises
         THEN MatchInMemory(sm, term_embedding, clauses, max_results)
    ELSE MapRows(sm.db_connection.rows, clauses, 1)

MaxResults == 5

\* an exception raised inside the block leaves it
Unguarded(raises) == raises

\* try: ... except Exception: (lines 101-105 and 166-203): an exception
\* raised inside the block does not leave it
Guarded(raises) == FALSE

\* an exception leaves SemanticMatcher.match: encode is called inside the
\* try of _generate_embedding, for the term and for each clause without an
\* embedding, and the backend inside the try of _match_with_pgvector
SemanticMatchRaises(sm, term, clauses) ==
    /\ IsAvailable(sm)
    /\ \/ Guarded(EncodeRaises(sm.embedding_model, term.raw_text))
       \/ /\ ~EncodeRaises(sm.embedding_model, term.raw_text)
          /\ \/ sm.db_connection.present /\ Guarded(sm.db_connection.raises)
             \/ /\ ~sm.db_connection.present \/ sm.db_connection.raises
                /\ \E i \in 1..Len(clauses) :
                      /\ ~ClauseOf(clauses[i]).semantic_embedding.some
                      /\ Guarded(EncodeRaises(sm.embedding_model,
                                              ClauseOf(clauses[i]).full_text))

\* match asks the backend, if there is one, before anything else
SemanticMatchBackendFirst(sm, term, clauses) ==
    IF sm.db_connection.present /\ ~sm.db_connection.raises
    THEN MapRows(sm.db_connection.rows, clauses, 1)
    ELSE <<>>

\* SemanticMatcher.match reaches the query of the vector-search backend
\* (lines 72-82, 163-188)
BackendQueried(sm, term, clauses) ==
    /\ IsAvailable(sm)
    /\ GenerateEmbedding(sm, term.raw_text).some
    /\ sm.db_connection.present

\* SemanticMatcher.match
SemanticMatch(sm, term, clauses) ==
    IF ~IsAvailable(sm) THEN <<>>
    ELSE LET term_embedding == GenerateEmbedding(sm, term.raw_text)
         IN  IF ~term_embedding.some THEN <<>>
             ELSE IF sm.db_connection.present
                  THEN MatchWithPgvector(sm, term_embedding, clauses, MaxResults)
             ELSE MatchInMemory(sm, term_embedding, clauses, MaxResults)

\* RuleBasedMatcher.match: the clauses with a rule candidate, best first
RECURSIVE RuleCandidates(_, _, _)
RuleCandidates(term, clauses, i) ==
    IF i > Len(clauses) THEN <<>>
    ELSE LET match_result == RuleTable[term.id, clauses[i]]
             rest == RuleCandidates(term, clauses, i + 1)
         IN  IF match_result.method # "none"
             THEN <<[clause_id |-> clauses[i], method |-> match_result.method,
                     confidence |-> match_result.confidence]>> \o rest
             ELSE rest

RuleMatch(term, clauses) == SortDesc(RuleCandidates(term, clauses, 1))

(***************************************************************************)
(* AlignmentEngine: pure parts                                             *)
(***************************************************************************)
\* category_to_types of _check_type_compatibility
CategoryToTypes(category) ==
    CASE category \in {"investment_amount", "valuation", "pricing"} -> {"currency", "number"}
      [] category = "board_seats" -> {"number", "text"}
      [] category = "voting_rights" -> {"percentage", "text"}
      [] category = "liquidation_preference" -> {"number", "percentage"}
      [] category \in {"anti_dilution", "information_rights", "other"} -> {"text"}
      [] category \in {"closing_conditions", "conditions_precedent"} -> {"text", "date"}
      [] OTHER -> {"text"}

\* _check_type_compatibility
CheckTypeCompatibility(term, segment) ==
    segment.expected_type \in CategoryToTypes(term.category)

\* _get_term_keywords: the English keywords, and how many Chinese ones follow
TermKeywords(category) ==
    CASE category = "investment_amount" -> [en |-> <<"investment", "amount", "capital">>, n_zh |-> 2]
      [] category = "valuation" -> [en |-> <<"valuation", "value">>, n_zh |-> 1]
      [] category = "pricing" -> [en |-> <<"price", "share">>, n_zh |-> 2]
      [] category = "board_seats" -> [en |-> <<"board", "director", "seat">>, n_zh |-> 2]
      [] category = "voting_rights" -> [en |-> <<"voting", "vote", "rights">>, n_zh |-> 2]
      [] category = "liquidation_preference" -> [en |-> <<"liquidation", "preference">>, n_zh |-> 2]
      [] category = "anti_dilution" -> [en |-> <<"dilution", "adjustment">>, n_zh |-> 2]
      [] category = "information_rights" -> [en |-> <<"information", "reporting">>, n_zh |-> 2]
      [] category = "closing_conditions" -> [en |-> <<"closing", "conditions">>, n_zh |-> 2]
      [] category = "conditions_precedent" -> [en |-> <<"precedent", "conditions">>, n_zh |-> 2]
      [] OTHER -> [en |-> <<>>, n_zh |-> 0]

\* _score_segment_for_term
ScoreSegmentForTerm(term, segment) ==
    LET context == Lower(segment.context_before \o " " \o segment.context_after)
        term_keywords == TermKeywords(term.category)
        n_keywords == Len(term_keywords.en) + term_keywords.n_zh
        keyword_matches ==
            Cardinality({i \in 1..Len(term_keywords.en) :
                            Contains(context, Lower(term_keywords.en[i]))})
    IN  (IF CheckTypeCompatibility(term, segment) THEN 5000 ELSE 0)
        + (IF n_keywords > 0 THEN (5000 * keyword_matches) \div n_keywords ELSE 0)

NoSegment == [id |-> NoValue, expected_type |-> NoValue, context_before |-> "",
              context_after |-> "", current_value |-> NoValue]

\* the loop of _find_best_fillable_segment from segment i on
RECURSIVE BestSegmentScan(_, _, _, _, _)
BestSegmentScan(term, segments, i, best_segment, best_score) ==
    IF i > Len(segments) THEN [segment |-> best_segment, score |-> best_score]
    ELSE LET score == ScoreSegmentForTerm(term, segments[i])
         IN  IF score > best_score
             THEN BestSegmentScan(term, segments, i + 1, segments[i], score)
             ELSE BestSegmentScan(term, segments, i + 1, best_segment, best_score)

\* a best score of 0.3 is enough
FindBestFillableSegmentAtBar(term, clause) ==
    IF Len(clause.fillable_segments) = 0 THEN NoSegment
    ELSE LET best == BestSegmentScan(term, clause.fillable_segments, 1, NoSegment, 0)
         IN  IF best.score >= 3000 THEN best.segment ELSE NoSegment

\* _find_best_fillable_segment (NoSegment for None)
FindBestFillableSegment(term, clause) ==
    IF Len(clause.fillable_segments) = 0 THEN NoSegment
    ELSE LET best == BestSegmentScan(term, clause.fillable_segments, 1, NoSegment, 0)
         IN  IF best.score > 3000 THEN best.segment ELSE NoSegment

\* _find_best_fillable_segment on the documents of the model, computed once
SegmentTable ==
    [t \in TermIds, c \in ClauseIds |-> FindBestFillableSegment(TermOf(t), ClauseOf(c))]

\* no value counts as a placeholder
IsPlaceholderNever(current) == FALSE

\* every character of s is c
AllChars(s, c) == \A i \in 1..Len(s) : SubSeq(s, i, i) = c

\* the placeholder_patterns of _classify_action, tried with re.match
IsPlaceholder(current) ==
    \/ Len(current) >= 2 /\ AllChars(current, "_")
    \/ Len(current) >= 2 /\ CharAt(current, 1) = "[" /\ CharAt(current, Len(current)) = "]"
    \/ Len(current) >= 2 /\ AllChars(current, "X")
    \/ StartsWith(current, "YYYY")

\* the action by the current value alone, whatever the policy
ClassifyActionByValue(action_policies, term, clause, fillable_segment) ==
    IF fillable_segment # NoSegment
       /\ fillable_segment.current_value # NoValue
       /\ fillable_segment.current_value # ""
    THEN IF IsPlaceholder(Strip(fillable_segment.current_value))
         THEN "insert" ELSE "override"
    ELSE "insert"

\* a policy other than "insert" and "override" gives INSERT
ClassifyActionUnknownInserts(action_policies, term, clause, fillable_segment) ==
    IF term.category \in DOMAIN action_policies
    THEN IF action_policies[term.category] = "override" THEN "override" ELSE "insert"
    ELSE ClassifyActionByValue(action_policies, term, clause, fillable_segment)

\* _classify_action
ClassifyAction(action_policies, term, clause, fillable_segment) ==
    LET policy == IF term.category \in DOMAIN action_policies
                  THEN action_policies[term.category] ELSE NoValue
    IN  IF policy = "insert" THEN "insert"
        ELSE IF policy = "override" THEN "override"
        ELSE IF fillable_segment # NoSegment
                /\ fillable_segment.current_value # NoValue
                /\ fillable_segment.current_value # ""
             THEN IF IsPlaceholder(Strip(fillable_segment.current_value))
                  THEN "insert" ELSE "override"
        ELSE "insert"

\* the global threshold, whatever the category
ReviewThresholdGlobal(eng, term) == eng.confidence_threshold

\* the threshold _create_match compares the confidence with for needs_review
ReviewThreshold(eng, term) ==
    IF term.category \in DOMAIN eng.review_thresholds_by_category
    THEN eng.review_thresholds_by_category[term.category]
    ELSE eng.confidence_threshold

\* the segment is looked for in every clause of the documents, and the one
\* of the first clause with a segment for the term is taken
CreateMatchAnySegment(eng, match_counter, term, clause, method, confidence) ==
    LET found == {c \in ClauseIds : SegmentTable[term.id, c] # NoSegment}
        fillable_segment == IF found = {} THEN NoSegment
                            ELSE SegmentTable[term.id, CHOOSE c \in found : TRUE]
    IN  [id |-> match_counter,
         ts_term_id |-> term.id,
         clause_id |-> clause.id,
         fillable_segment_id |-> fillable_segment.id,
         match_method |-> method,
         confidence |-> confidence,
         action |-> ClassifyAction(eng.action_policies, term, clause, fillable_segment),
         needs_review |-> confidence < ReviewThreshold(eng, term)]

\* _create_match, with the value match_counter of the counter
CreateMatch(eng, match_counter, term, clause, method, confidence) ==
    LET fillable_segment == IF clause.id \in ClauseIds THEN SegmentTable[term.id, clause.id]
                            ELSE FindBestFillableSegment(term, clause)
    IN  [id |-> match_counter,
         ts_term_id |-> term.id,
         clause_id |-> clause.id,
         fillable_segment_id |-> fillable_segment.id,
         match_method |-> method,
         confidence |-> confidence,
         action |-> ClassifyAction(eng.action_policies, term, clause, fillable_segment),
         needs_review |-> confidence < ReviewThreshold(eng, term)]

\* str(d) for one decimal digit
DigitChar(d) ==
    CASE d = 0 -> "0" [] d = 1 -> "1" [] d = 2 -> "2" [] d = 3 -> "3" [] d = 4 -> "4"
      [] d = 5 -> "5" [] d = 6 -> "6" [] d = 7 -> "7" [] d = 8 -> "8" [] d = 9 -> "9"

\* the format spec 04d: decimal digits, zero-padded to four
RECURSIVE ZeroPadded(_, _)
ZeroPadded(n, width) ==
    IF n < 10 /\ width <= 1 THEN DigitChar(n)
    ELSE ZeroPadded(n \div 10, width - 1) \o DigitChar(n % 10)

\* _create_match, line 187: f"match_{self._match_counter:04d}"
FormatMatchId(match_counter) == "match_" \o ZeroPadded(match_counter, 4)

\* ', '.join(names)
RECURSIVE JoinComma(_, _)
JoinComma(names, i) ==
    IF i > Len(names) THEN ""
    ELSE IF i = Len(names) THEN names[i]
    ELSE names[i] \o ", " \o JoinComma(names, i + 1)

\* _create_unmatched_term_entry: the text of the entry
CreateUnmatchedTermEntry(term) ==
    LET category_names == GetExpectedClauseCategories(term.category)
    IN  "Term '" \o term.title \o "' (ID: " \o term.id \o ", Category: "
            \o term.category \o ") could not be matched. Suggested review: "
            \o "Look for clauses in categories "
            \o (IF category_names # <<>> THEN JoinComma(category_names, 1) ELSE "any")
            \o ". Source: " \o term.source_section_id

(***************************************************************************)
(* Configuration passed to align                                           *)
(***************************************************************************)
EmptyMap == [k \in {} |-> 0]

\* a config argument: None, or a dict with the given keys
ConfigNone ==
    [is_none |-> TRUE, keys |-> {}, confidence_threshold |-> 0, semantic_threshold |-> 0,
     action_policies_by_category |-> EmptyMap, review_thresholds_by_category |-> EmptyMap]

ConfigEmpty == [ConfigNone EXCEPT !.is_none = FALSE]

ConfigLow ==
    [ConfigEmpty EXCEPT !.keys = {"confidence_threshold"}, !.confidence_threshold = 5000]

ConfigBadThreshold ==
    [ConfigEmpty EXCEPT !.keys = {"confidence_threshold"}, !.confidence_threshold = 15000]

ConfigPartial ==
    [ConfigEmpty EXCEPT !.keys = {"confidence_threshold", "semantic_threshold"},
                        !.confidence_threshold = 9000, !.semantic_threshold = 15000]

ConfigFull ==
    [ConfigEmpty EXCEPT
        !.keys = {"confidence_threshold", "semantic_threshold",
                  "action_policies_by_category", "review_thresholds_by_category"},
        !.confidence_threshold = 8000, !.semantic_threshold = 8000,
        !.action_policies_by_category =
            ("investment_amount" :> "override") @@ ("board_seats" :> "auto")
                @@ ("liquidation_preference" :> "insert"),
        !.review_thresholds_by_category =
            ("liquidation_preference" :> 9900) @@ ("board_seats" :> 5000)]

ConfigBadReview ==
    [ConfigEmpty EXCEPT !.keys = {"review_thresholds_by_category"},
                        !.review_thresholds_by_category = ("board_seats" :> 15000)]

ConfigCatalog ==
    {ConfigNone, ConfigEmpty, ConfigLow, ConfigBadThreshold, ConfigPartial, ConfigFull,
     ConfigBadReview}

\* the test `if config:`
ConfigGiven(config) == ~config.is_none /\ config.keys # {}

\* every value passes
AnyThreshold(threshold) == TRUE

\* the test of the two threshold setters
ValidThreshold(threshold) == 0 <= threshold /\ threshold <= Scale

\* the two maps are read with config.get(key, {}): a config without the
\* key empties the map
ApplyConfigDefaulting(eng, config) ==
    LET e1 == IF "confidence_threshold" \in config.keys
              THEN [eng EXCEPT !.confidence_threshold = config.confidence_threshold]
              ELSE eng
        e2 == IF "semantic_threshold" \in config.keys
              THEN [e1 EXCEPT !.semantic_matcher.similarity_threshold =
                                  config.semantic_threshold]
              ELSE e1
        e4 == [e2 EXCEPT !.action_policies = config.action_policies_by_category,
                         !.review_thresholds_by_category =
                             config.review_thresholds_by_category]
    IN  IF "confidence_threshold" \in config.keys
           /\ ~ValidThreshold(config.confidence_threshold)
        THEN [engine |-> eng, raised |-> TRUE]
        ELSE IF "semantic_threshold" \in config.keys
                /\ ~ValidThreshold(config.semantic_threshold)
        THEN [engine |-> e1, raised |-> TRUE]
        ELSE [engine |-> e4, raised |-> FALSE]

\* _apply_config: the engine afterwards, and whether ValueError was raised
ApplyConfig(eng, config) ==
    LET e1 == IF "confidence_threshold" \in config.keys
              THEN [eng EXCEPT !.confidence_threshold = config.confidence_threshold]
              ELSE eng
        e2 == IF "semantic_threshold" \in config.keys
              THEN [e1 EXCEPT !.semantic_matcher.similarity_threshold =
                                  config.semantic_threshold]
              ELSE e1
        e3 == IF "action_policies_by_category" \in config.keys
              THEN [e2 EXCEPT !.action_policies = config.action_policies_by_category]
              ELSE e2
        e4 == IF "review_thresholds_by_category" \in config.keys
              THEN [e3 EXCEPT !.review_thresholds_by_category =
                                  config.review_thresholds_by_category]
              ELSE e3
    IN  IF "confidence_threshold" \in config.keys
           /\ ~ValidThreshold(config.confidence_threshold)
        THEN [engine |-> eng, raised |-> TRUE]
        ELSE IF "semantic_threshold" \in config.keys
                /\ ~ValidThreshold(config.semantic_threshold)
        THEN [engine |-> e1, raised |-> TRUE]
        ELSE [engine |-> e4, raised |-> FALSE]

(***************************************************************************)
(* The engine as a state machine.  A thread is a caller that invokes       *)
(* align, and the two setters, on the engine it holds; one align call      *)
(* proceeds in the steps below.                                            *)
(***************************************************************************)
VARIABLES
    engines,       \* engine id -> the fields of that AlignmentEngine
    engine_of,     \* thread -> the engine it calls
    callers,       \* who calls the engine: names the arguments in use (fixed)
    pc,            \* thread -> where its align call is
    args,          \* thread -> the arguments of its current or last call
    frame,         \* thread -> the local variables of its align call
    result,        \* thread -> the AlignmentResult of its last returned call
    sem_calls,     \* thread -> terms the semantic matcher was invoked for
    start_engine,  \* thread -> the engine's fields as the call found them, counter reset
    prev,          \* thread -> outline of the result before, if the call is a repeat
    overlapped,    \* thread -> another thread acted during the call
    probe          \* the last call of a setter or of a part, and its outcome

vars == <<engines, engine_of, callers, pc, args, frame, result, sem_calls,
          start_engine, prev, overlapped, probe>>

\* bounds on the documents of one call
MaxTerms == 2
MaxClauses == 2
\* bound on the rows the vector-search backend returns to one query
MaxRows == 2
\* the match counter stays at or below this value: callers that overlap on one
\* engine can drive it up without end
MaxCounter == 4

\* the injective sequences over S of length at most n
ListsUpTo(S, n) ==
    {q \in UNION {[1..k -> S] : k \in 0..n} :
        \A a, b \in DOMAIN q : a # b => q[a] # q[b]}

TermLists == ListsUpTo(TermIds, MaxTerms)
ClauseLists == ListsUpTo(ClauseIds, MaxClauses)

\* AlignmentEngine.__init__
NewEngine(embedding_model, db_connection, confidence_threshold) ==
    [semantic_matcher |-> [embedding_model |-> embedding_model,
                           similarity_threshold |-> 6000,
                           db_connection |-> db_connection],
     confidence_threshold |-> confidence_threshold,
     match_counter |-> 0,
     action_policies |-> EmptyMap,
     review_thresholds_by_category |-> EmptyMap]

\* start_engine of a thread that is not in a call
NoEngine == NewEngine(NoValue, NoDb, 0)

NoMatchRecord ==
    [id |-> 0, ts_term_id |-> NoValue, clause_id |-> NoValue,
     fillable_segment_id |-> NoValue, match_method |-> NoValue, confidence |-> 0,
     action |-> NoValue, needs_review |-> FALSE]

\* the local variables of align and _align_term
EmptyFrame ==
    [i |-> 1,                  \* index of the term being processed
     pending |-> <<>>,         \* candidates of the running loop still to visit
     term_matches |-> <<>>,    \* `matches` of _align_term
     draft |-> NoMatchRecord,  \* the match _create_match is building
     matches |-> <<>>, unmatched_terms |-> <<>>, matched_clause_ids |-> {}]

NoResult == [matches |-> <<>>, unmatched_terms |-> <<>>, unmatched_clauses |-> <<>>]

\* what two results are compared by: the (term_id, clause_id, method, action)
\* tuples of the matches in order, and the two unmatched lists
Outline(r) ==
    [tuples |-> [k \in 1..Len(r.matches) |->
                    <<r.matches[k].ts_term_id, r.matches[k].clause_id,
                      r.matches[k].match_method, r.matches[k].action>>],
     unmatched_terms |-> r.unmatched_terms,
     unmatched_clauses |-> r.unmatched_clauses]

NoPrev == [some |-> FALSE, outline |-> Outline(NoResult)]
\* a call of a setter or of a part of the engine: what was called, with
\* what, and what it returned or raised
Called(op, input, output) == [op |-> op, input |-> input, output |-> output]
NoProbe == Called(NoValue, NoValue, NoValue)

NoArgs == [terms |-> <<>>, clauses |-> <<>>, config |-> ConfigNone]

\* the callers there may be, and those of this behaviour
ThreadIds == {1, 2}
Threads == DOMAIN engine_of
Eng(t) == engines[engine_of[t]]

\* the counter of the class, one for all instances
CounterOwnerShared(e) == 1

\* _match_counter is an attribute of the instance (line 49): the engine
\* whose record holds the counter that engine e uses
CounterOwner(e) == e
Counter(t) == engines[CounterOwner(engine_of[t])].match_counter

InCall(t) == pc[t] \notin {"idle", "done", "raised"}

\* the threads in a call, other than t
Others(t) == {u \in Threads \ {t} : InCall(u)}

\* thread t acts on its engine: the calls of the others overlap that
MarkOthers(t) == overlapped' = [u \in Threads |-> overlapped[u] \/ u \in Others(t)]

\* the counter runs on from the call before
KeepCounter(match_counter) == match_counter

\* align, line 72
ResetCounter(match_counter) == 0

\* the counter is not advanced
IncrementStuck(match_counter) == match_counter

\* _create_match, line 186: the sum `self._match_counter += 1` stores
Increment(match_counter) == match_counter + 1

\* the list of matches outlives the call
StaleFrame(old_frame) == [EmptyFrame EXCEPT !.matches = old_frame.matches]

\* align, lines 73-75: the accumulators of a call start empty
FreshFrame(old_frame) == EmptyFrame

\* a term whose best clause was taken by an earlier term gets no match
AcceptedMatchesFreeClause(matches, term_matches) ==
    IF term_matches # <<>>
       /\ \A k \in 1..Len(matches) : matches[k].clause_id # term_matches[1].clause_id
    THEN Append(matches, term_matches[1]) ELSE matches

\* align, lines 85-89: the best match of the term is accepted
AcceptedMatches(matches, term_matches) ==
    IF term_matches # <<>> THEN Append(matches, term_matches[1]) ELSE matches

\* the clause of the accepted match is not recorded
MatchedClauseIdsKept(matched_clause_ids, term_matches) == matched_clause_ids

MatchedClauseIds(matched_clause_ids, term_matches) ==
    IF term_matches # <<>> THEN matched_clause_ids \cup {term_matches[1].clause_id}
    ELSE matched_clause_ids

\* a term whose best match needs review gets an unmatched entry as well
UnmatchedTermsOrReview(unmatched_terms, term_matches, term) ==
    IF term_matches # <<>> /\ ~term_matches[1].needs_review THEN unmatched_terms
    ELSE Append(unmatched_terms, CreateUnmatchedTermEntry(term))

\* align, lines 90-94: a term without a match gets an unmatched entry
UnmatchedTerms(unmatched_terms, term_matches, term) ==
    IF term_matches # <<>> THEN unmatched_terms
    ELSE Append(unmatched_terms, CreateUnmatchedTermEntry(term))
Term(t) == TermOf(args[t].terms[frame[t].i])

\* align, lines 72-79: reset the counter and the accumulators
Enter(t, terms, clauses, config) ==
    /\ engines' = [engines EXCEPT ![CounterOwner(engine_of[t])].match_counter =
                                      ResetCounter(@)]
    /\ args' = [args EXCEPT ![t] = [terms |-> terms, clauses |-> clauses, config |-> config]]
    /\ frame' = [frame EXCEPT ![t] = FreshFrame(@)]
    /\ sem_calls' = [sem_calls EXCEPT ![t] = <<>>]
    /\ start_engine' = [start_engine EXCEPT ![t] = engines'[engine_of[t]]]
    /\ overlapped' = [u \in Threads |->
                         IF u = t THEN Others(t) # {} ELSE overlapped[u] \/ u \in Others(t)]
    /\ pc' = [pc EXCEPT ![t] = IF ConfigGiven(config) THEN "config" ELSE "term"]
    /\ result' = [result EXCEPT ![t] = NoResult]
    /\ probe' = NoProbe
    /\ UNCHANGED <<engine_of, callers>>

\* the caller invokes align
Begin(t, terms, clauses, config) ==
    /\ t \in Threads
    /\ pc[t] = "idle"
    /\ Enter(t, terms, clauses, config)
    /\ prev' = [prev EXCEPT ![t] = NoPrev]

\* the caller invokes align again with the arguments of the call that has
\* just returned, and keeps the outline of that call's result to compare
Repeat(t) ==
    /\ t \in Threads
    /\ pc[t] = "done"
    /\ Enter(t, args[t].terms, args[t].clauses, args[t].config)
    /\ prev' = [prev EXCEPT ![t] = [some |-> TRUE, outline |-> Outline(result[t])]]

\* align, line 79: _apply_config, which may raise ValueError out of align
Configure(t) ==
    /\ t \in Threads
    /\ pc[t] = "config"
    /\ LET applied == ApplyConfig(Eng(t), args[t].config)
       IN  /\ engines' = [engines EXCEPT ![engine_of[t]] = applied.engine]
           /\ pc' = [pc EXCEPT ![t] = IF applied.raised THEN "raised" ELSE "term"]
    /\ MarkOthers(t)
    /\ UNCHANGED <<engine_of, callers, probe, args, frame, result, sem_calls, start_engine, prev>>

\* _align_term, line 130: the rule matcher is run for the next term
RuleStep(t) ==
    /\ t \in Threads
    /\ pc[t] = "term"
    /\ frame[t].i <= Len(args[t].terms)
    /\ frame' = [frame EXCEPT ![t].pending = RuleMatch(Term(t), args[t].clauses),
                              ![t].term_matches = <<>>]
    /\ pc' = [pc EXCEPT ![t] = "rule_loop"]
    /\ UNCHANGED <<engines, engine_of, callers, probe, args, result, sem_calls, start_engine, prev,
                   overlapped>>

\* the semantic candidate at the head of the loop names a clause that
\* already has a match (line 142)
IsDuplicate(t) ==
    /\ pc[t] = "semantic_loop"
    /\ \E k \in 1..Len(frame[t].term_matches) :
           frame[t].term_matches[k].clause_id = Head(frame[t].pending).clause_id

\* _create_match, lines 172-186: segment, action and review flag are
\* computed from the engine's settings, and `self._match_counter += 1`
\* loads the counter; draft.id holds the loaded value
CreateMatchStep(t) ==
    /\ t \in Threads
    /\ pc[t] \in {"rule_loop", "semantic_loop"}
    /\ frame[t].pending # <<>>
    /\ ~IsDuplicate(t)
    /\ Counter(t) < MaxCounter
    /\ LET cand == Head(frame[t].pending)
       IN  frame' = [frame EXCEPT ![t].draft =
                        CreateMatch(Eng(t), Counter(t), Term(t), ClauseOf(cand.clause_id),
                                    cand.method, cand.confidence)]
    /\ pc' = [pc EXCEPT ![t] = IF pc[t] = "rule_loop" THEN "rule_store" ELSE "semantic_store"]
    /\ MarkOthers(t)
    /\ UNCHANGED <<engines, engine_of, callers, probe, args, result, sem_calls, start_engine, prev>>

\* _create_match, line 186: `self._match_counter += 1` stores the sum
StoreCounterStep(t) ==
    /\ t \in Threads
    /\ pc[t] \in {"rule_store", "semantic_store"}
    /\ engines' = [engines EXCEPT ![CounterOwner(engine_of[t])].match_counter =
                                      Increment(frame[t].draft.id)]
    /\ pc' = [pc EXCEPT ![t] = IF pc[t] = "rule_store" THEN "rule_id" ELSE "semantic_id"]
    /\ MarkOthers(t)
    /\ UNCHANGED <<engine_of, callers, probe, args, frame, result, sem_calls, start_engine, prev>>

\* _create_match, lines 187-198: the id is formatted from the counter as it
\* is now, and the match is appended to the matches of the term
MatchIdStep(t) ==
    /\ t \in Threads
    /\ pc[t] \in {"rule_id", "semantic_id"}
    /\ frame' = [frame EXCEPT
                    ![t].term_matches =
                        Append(@, [frame[t].draft EXCEPT !.id = Counter(t)]),
                    ![t].pending = Tail(@),
                    ![t].draft = NoMatchRecord]
    /\ pc' = [pc EXCEPT ![t] = IF pc[t] = "rule_id" THEN "rule_loop" ELSE "semantic_loop"]
    /\ MarkOthers(t)
    /\ UNCHANGED <<engines, engine_of, callers, probe, args, result, sem_calls, start_engine, prev>>

\* _align_term, lines 142-143: a duplicate semantic candidate is passed over
SkipDuplicate(t) ==
    /\ t \in Threads
    /\ pc[t] = "semantic_loop"
    /\ frame[t].pending # <<>>
    /\ IsDuplicate(t)
    /\ frame' = [frame EXCEPT ![t].pending = Tail(@)]
    /\ UNCHANGED <<engines, engine_of, callers, probe, pc, args, result, sem_calls,
                   start_engine, prev, overlapped>>

\* the test with <= for <
NeedsSemanticAtOrBelow(eng, term_matches) ==
    IF term_matches = <<>> THEN TRUE
    ELSE term_matches[1].confidence <= eng.confidence_threshold

\* the test against the threshold configured for the category of the term
NeedsSemanticByCategory(eng, term_matches) ==
    IF term_matches = <<>> THEN TRUE
    ELSE term_matches[1].confidence
             < ReviewThreshold(eng, TermOf(term_matches[1].ts_term_id))

\* the test of line 137 after the rule loop
NeedsSemantic(eng, term_matches) ==
    IF term_matches = <<>> THEN TRUE
    ELSE term_matches[1].confidence < eng.confidence_threshold

\* _align_term, lines 137-138: the semantic matcher is invoked
SemanticStep(t) ==
    /\ t \in Threads
    /\ pc[t] = "rule_loop"
    /\ frame[t].pending = <<>>
    /\ NeedsSemantic(Eng(t), frame[t].term_matches)
    /\ sem_calls' = [sem_calls EXCEPT ![t] = Append(@, Term(t).id)]
    /\ LET raises == SemanticMatchRaises(Eng(t).semantic_matcher, Term(t),
                                         args[t].clauses)
       IN  /\ frame' = [frame EXCEPT ![t].pending =
                            IF raises THEN @
                            ELSE SemanticMatch(Eng(t).semantic_matcher, Term(t),
                                               args[t].clauses)]
           /\ pc' = [pc EXCEPT ![t] = IF raises THEN "raised" ELSE "semantic_loop"]
    /\ UNCHANGED <<engines, engine_of, callers, probe, args, result, start_engine, prev, overlapped>>

\* _align_term returns (line 148) and align settles the term (lines 85-94)
SettleTerm(t) ==
    /\ t \in Threads
    /\ frame[t].pending = <<>>
    /\ \/ pc[t] = "semantic_loop"
       \/ pc[t] = "rule_loop" /\ ~NeedsSemantic(Eng(t), frame[t].term_matches)
    /\ LET term_matches == SortDesc(frame[t].term_matches)
       IN  frame' = [frame EXCEPT
                        ![t].matches = AcceptedMatches(@, term_matches),
                        ![t].matched_clause_ids = MatchedClauseIds(@, term_matches),
                        ![t].unmatched_terms = UnmatchedTerms(@, term_matches, Term(t)),
                        ![t].term_matches = <<>>,
                        ![t].i = @ + 1]
    /\ pc' = [pc EXCEPT ![t] = "term"]
    /\ UNCHANGED <<engines, engine_of, callers, probe, args, result, sem_calls, start_engine, prev,
                   overlapped>>

\* the list comprehension of lines 97-100
RECURSIVE UnmatchedClauses(_, _, _)
UnmatchedClauses(clauses, matched_clause_ids, i) ==
    IF i > Len(clauses) THEN <<>>
    ELSE (IF clauses[i] \notin matched_clause_ids THEN <<clauses[i]>> ELSE <<>>)
             \o UnmatchedClauses(clauses, matched_clause_ids, i + 1)

\* align, lines 96-109: the result is assembled and returned
Return(t) ==
    /\ t \in Threads
    /\ pc[t] = "term"
    /\ frame[t].i > Len(args[t].terms)
    /\ result' = [result EXCEPT ![t] =
                    [matches |-> frame[t].matches,
                     unmatched_terms |-> frame[t].unmatched_terms,
                     unmatched_clauses |->
                         UnmatchedClauses(args[t].clauses, frame[t].matched_clause_ids, 1)]]
    /\ pc' = [pc EXCEPT ![t] = "done"]
    /\ UNCHANGED <<engines, engine_of, callers, probe, args, frame, sem_calls, start_engine, prev,
                   overlapped>>

\* the caller is done with the outcome of its last call
Release(t) ==
    /\ t \in Threads
    /\ pc[t] \in {"done", "raised"}
    /\ pc' = [pc EXCEPT ![t] = "idle"]
    /\ args' = [args EXCEPT ![t] = NoArgs]
    /\ frame' = [frame EXCEPT ![t] = EmptyFrame]
    /\ result' = [result EXCEPT ![t] = NoResult]
    /\ sem_calls' = [sem_calls EXCEPT ![t] = <<>>]
    /\ start_engine' = [start_engine EXCEPT ![t] = NoEngine]
    /\ prev' = [prev EXCEPT ![t] = NoPrev]
    /\ overlapped' = [overlapped EXCEPT ![t] = FALSE]
    /\ probe' = NoProbe
    /\ UNCHANGED <<engines, engine_of, callers>>

\* set_confidence_threshold, called between align calls
SetConfidenceThreshold(t, threshold) ==
    /\ t \in Threads
    /\ pc[t] = "idle"
    /\ engines' = [engines EXCEPT ![engine_of[t]].confidence_threshold =
                        IF ValidThreshold(threshold) THEN threshold ELSE @]
    /\ probe' = Called("set_confidence_threshold", threshold,
                       IF ValidThreshold(threshold) THEN NoValue ELSE "ValueError")
    /\ MarkOthers(t)
    /\ UNCHANGED <<engine_of, callers, pc, args, frame, result, sem_calls,
                   start_engine, prev>>

\* SemanticMatcher.set_similarity_threshold, called between align calls
SetSimilarityThreshold(t, threshold) ==
    /\ t \in Threads
    /\ pc[t] = "idle"
    /\ engines' = [engines EXCEPT ![engine_of[t]].semantic_matcher.similarity_threshold =
                        IF ValidThreshold(threshold) THEN threshold ELSE @]
    /\ probe' = Called("set_similarity_threshold", threshold,
                       IF ValidThreshold(threshold) THEN NoValue ELSE "ValueError")
    /\ MarkOthers(t)
    /\ UNCHANGED <<engine_of, callers, pc, args, frame, result, sem_calls,
                   start_engine, prev>>

\* the arguments the callers of a behaviour pass: "documents" varies the
\* term and clause lists, "settings" the configuration and the setters,
\* "backend" the documents against a vector-search backend, "threads" is
\* two callers at once
TermListsOf(who) ==
    CASE who = "documents" -> TermLists
      [] who = "settings" -> {<<"term_002", "term_003">>, <<"term_003", "term_001">>}
      [] who = "backend" -> {q \in TermLists : Len(q) = 1}
      [] OTHER -> {<<"term_001", "term_003">>}

ClauseListsOf(who) ==
    CASE who = "documents" -> ClauseLists
      [] who = "settings" -> {<<"clause_001", "clause_002">>, <<"clause_004", "clause_002">>}
      [] who = "backend" -> {<<"clause_001", "clause_003">>, <<"clause_002">>,
                             <<"clause_001", "clause_002">>}
      [] OTHER -> {<<"clause_001">>}

ConfigsOf(who) ==
    CASE who = "settings" -> ConfigCatalog
      [] OTHER -> {ConfigNone, ConfigBadThreshold}

ThresholdsOf(who) ==
    CASE who = "settings" -> {5000, 15000}
      [] who = "parts" -> {-1, 0, 5000, Scale, Scale + 1}
      [] OTHER -> {15000}

\* get_confidence_threshold
GetConfidenceThreshold(eng) == eng.confidence_threshold

\* SemanticMatcher.get_similarity_threshold
GetSimilarityThreshold(sm) == sm.similarity_threshold

Next ==
    \E t \in ThreadIds :
        \/ /\ t \in Threads
           /\ pc[t] = "idle"
           /\ \E terms \in TermListsOf(callers), clauses \in ClauseListsOf(callers),
                 config \in ConfigsOf(callers) : Begin(t, terms, clauses, config)
        \/ Repeat(t)
        \/ Configure(t)
        \/ RuleStep(t)
        \/ CreateMatchStep(t)
        \/ StoreCounterStep(t)
        \/ MatchIdStep(t)
        \/ SkipDuplicate(t)
        \/ SemanticStep(t)
        \/ SettleTerm(t)
        \/ Return(t)
        \/ Release(t)
        \/ /\ t \in Threads
           /\ pc[t] = "idle"
           /\ \/ \E threshold \in ThresholdsOf(callers) :
                     SetConfidenceThreshold(t, threshold)
              \/ \E threshold \in ThresholdsOf(callers) :
                     SetSimilarityThreshold(t, threshold)

\* the rows a vector-search backend may return: ids of supplied clauses or
\* of none, similarities in and out of [0, 1]
RowIds == {"clause_001", "clause_002", "clause_003", "clause_999"}
RowSimilarities == {-2000, 6500, 8000, 12000}
Rows == [clause_id : RowIds, similarity : RowSimilarities]
RowLists == UNION {[1..k -> Rows] : k \in 0..MaxRows}

InitThreads(eng_of) ==
    /\ engine_of = eng_of
    /\ pc = [t \in DOMAIN eng_of |-> "idle"]
    /\ args = [t \in DOMAIN eng_of |-> NoArgs]
    /\ frame = [t \in DOMAIN eng_of |-> EmptyFrame]
    /\ result = [t \in DOMAIN eng_of |-> NoResult]
    /\ sem_calls = [t \in DOMAIN eng_of |-> <<>>]
    /\ prev = [t \in DOMAIN eng_of |-> NoPrev]
    /\ start_engine = [t \in DOMAIN eng_of |-> NoEngine]
    /\ overlapped = [t \in DOMAIN eng_of |-> FALSE]
    /\ probe = NoProbe

\* one caller on one engine without a vector-search backend
Init ==
    /\ \/ /\ callers = "documents"
          /\ \E embedding_model \in {NoValue, "encoder"},
                confidence_threshold \in {7000, 9500} :
                 engines = [e \in {1} |->
                               NewEngine(embedding_model, NoDb, confidence_threshold)]
       \/ /\ callers = "settings"
          /\ engines = [e \in {1} |-> NewEngine("encoder", NoDb, 7000)]
    /\ InitThreads([t \in {1} |-> 1])

Spec == Init /\ [][Next]_vars

\* one caller on one engine with a vector-search backend
InitBackend ==
    /\ callers = "backend"
    /\ \E embedding_model \in EmbeddingModels,
          db_connection \in {BrokenDb} \cup {DbReturning(rows) : rows \in RowLists} :
           /\ embedding_model \notin {NoValue, "encoder"}
                 => db_connection \in {BrokenDb, DbReturning(<<>>)}
           /\ engines = [e \in {1} |-> NewEngine(embedding_model, db_connection, 7000)]
    /\ InitThreads([t \in {1} |-> 1])

SpecBackend == InitBackend /\ [][Next]_vars

\* two callers, each on an engine of its own
InitTwoEngines ==
    /\ callers = "threads"
    /\ engines = [e \in {1, 2} |-> NewEngine("encoder", NoDb, 7000)]
    /\ InitThreads([t \in {1, 2} |-> t])

SpecTwoEngines == InitTwoEngines /\ [][Next]_vars

\* two callers on the same engine
InitShared ==
    /\ callers = "threads"
    /\ engines = [e \in {1} |-> NewEngine("encoder", NoDb, 7000)]
    /\ InitThreads([t \in {1, 2} |-> 1])

SpecShared == InitShared /\ [][Next]_vars

(***************************************************************************)
(* The parts of the engine called on their own                             *)
(***************************************************************************)
\* current values of the fillable segment _classify_action is called with
SegmentValues ==
    {NoValue, "", "____", "_", " ____ ", "[amount]", "[]", "XX", "XXXX", "X",
     "YYYY-MM-DD", "USD 5,000,000", " 2x ", "  "}

\* a FillableSegment holding the value; None among the segments stands for
\* no segment
SegmentWith(current_value) ==
    [id |-> "seg_001", expected_type |-> "currency", context_before |-> "",
     context_after |-> "", current_value |-> current_value]

Segments == {NoSegment} \cup {SegmentWith(v) : v \in SegmentValues}

\* configs that carry action policies only
PolicyConfigs ==
    {[ConfigEmpty EXCEPT !.keys = {"action_policies_by_category"},
                         !.action_policies_by_category = policies] :
        policies \in {("investment_amount" :> "override"),
                      ("investment_amount" :> "insert") @@ ("board_seats" :> "skip"),
                      ("liquidation_preference" :> "auto")}}

\* _classify_action called for a term and a fillable segment
ClassifyActionCall(t, term_id, clause_id, fillable_segment) ==
    /\ t \in Threads
    /\ pc[t] = "idle"
    /\ probe' = Called("_classify_action", <<term_id, fillable_segment>>,
                       ClassifyAction(Eng(t).action_policies, TermOf(term_id),
                                      ClauseOf(clause_id), fillable_segment))
    /\ UNCHANGED <<engines, engine_of, callers, pc, args, frame, result, sem_calls,
                   start_engine, prev, overlapped>>

\* terms RuleBasedMatcher.match is called with: those of the documents, and
\* others without title, with a title in other case, without section number
PartTerms ==
    {TermOf(id) : id \in TermIds}
    \cup {[TermOf("term_002") EXCEPT !.title = title] :
             title \in {"", "liquidation preference"}}
    \cup {[TermOf("term_003") EXCEPT !.raw_text = "Investor shall have two board seats"]}

\* clauses RuleBasedMatcher.match is called with: those of the documents, and
\* others without title, with the title of a term of another category, with
\* other keywords
PartClauses ==
    {ClauseOf(id) : id \in ClauseIds}
    \cup {[ClauseOf(id) EXCEPT !.title = ""] : id \in {"clause_002", "clause_003"}}
    \cup {[ClauseOf("clause_003") EXCEPT !.title = "ANTI-DILUTION"]}
    \cup {[ClauseOf("clause_004") EXCEPT !.keywords = keywords] :
             keywords \in {<<>>, <<"Board", "seats">>,
                           <<"board", "seats", "investor", "shall", "have">>}}

\* _match_term_to_clause on the terms and clauses above, computed once
PartRuleTable ==
    [term \in PartTerms, clause \in PartClauses |-> MatchTermToClause(term, clause)]

\* RuleBasedMatcher.match on clause objects: the candidates in the order of
\* the clauses (lines 198-204)
RECURSIVE PartCandidates(_, _, _)
PartCandidates(term, clauses, i) ==
    IF i > Len(clauses) THEN <<>>
    ELSE LET match_result == PartRuleTable[term, clauses[i]]
             rest == PartCandidates(term, clauses, i + 1)
         IN  IF match_result.method # "none"
             THEN <<match_result @@ [clause |-> clauses[i]]>> \o rest
             ELSE rest

\* RuleBasedMatcher.match called for a term and a list of clauses
RuleMatcherMatchCall(t, term, clauses) ==
    /\ t \in Threads
    /\ pc[t] = "idle"
    /\ probe' = Called("match", <<term, clauses>>,
                       SortDesc(PartCandidates(term, clauses, 1)))
    /\ UNCHANGED <<engines, engine_of, callers, pc, args, frame, result, sem_calls,
                   start_engine, prev, overlapped>>

NextParts ==
    \E t \in ThreadIds :
        \/ \E term_id \in TermIds, clause_id \in {"clause_001"},
              fillable_segment \in Segments :
               ClassifyActionCall(t, term_id, clause_id, fillable_segment)
        \/ \E threshold \in ThresholdsOf(callers) : SetConfidenceThreshold(t, threshold)
        \/ \E threshold \in ThresholdsOf(callers) : SetSimilarityThreshold(t, threshold)

\* one engine as constructed, or as an align call with a config left it
InitParts ==
    /\ callers = "parts"
    /\ \E config \in {ConfigEmpty} \cup PolicyConfigs :
           engines = [e \in {1} |-> ApplyConfig(NewEngine(NoValue, NoDb, 7000), config).engine]
    /\ InitThreads([t \in {1} |-> 1])

SpecParts == InitParts /\ [][NextParts]_vars

\* _find_best_fillable_segment called for a term and a clause with the
\* segments
FindBestFillableSegmentCall(t, term_id, segments) ==
    /\ t \in Threads
    /\ pc[t] = "idle"
    /\ probe' = Called("_find_best_fillable_segment", <<term_id, segments>>,
                       FindBestFillableSegment(
                           TermOf(term_id),
                           [ClauseOf("clause_003") EXCEPT !.fillable_segments = segments]))
    /\ UNCHANGED <<engines, engine_of, callers, pc, args, frame, result, sem_calls,
                   start_engine, prev, overlapped>>

\* the rule matcher and the segment search of an engine as constructed,
\* called on their own; the segments are of a compatible type or not, with
\* none, one or three of the five keywords of investment_amount around them
NextRules ==
    \E t \in ThreadIds :
        \/ \E term \in PartTerms, clauses \in ListsUpTo(PartClauses, MaxClauses) :
               RuleMatcherMatchCall(t, term, clauses)
        \/ \E term_id \in TermIds,
              segments \in ListsUpTo(
                  {[SegmentWith("____") EXCEPT !.id = id, !.expected_type = expected_type,
                                               !.context_before = context[1],
                                               !.context_after = context[2]] :
                       id \in {"seg_001", "seg_002"},
                       expected_type \in {"currency", "date"},
                       context \in {<<"", "">>, <<"the Investment of", "">>,
                                    <<"investment amount of", "in Capital">>}},
                  MaxClauses) :
               /\ \A i \in DOMAIN segments : segments[i].id = <<"seg_001", "seg_002">>[i]
               /\ FindBestFillableSegmentCall(t, term_id, segments)

\* one engine as constructed
InitRules == InitParts /\ Eng(1).action_policies = EmptyMap

SpecRules == InitRules /\ [][NextRules]_vars

(***************************************************************************)
(* align as a function of the engine and the arguments: the outcome of a   *)
(* call that runs from its first line to its last with the engine to       *)
(* itself                                                                  *)
(***************************************************************************)
\* the loops of _align_term over the candidates (lines 132-134, 141-145)
RECURSIVE AddCandidates(_, _, _, _, _, _, _)
AddCandidates(eng, term, candidates, i, match_counter, term_matches, dedupe) ==
    IF i > Len(candidates)
    THEN [term_matches |-> term_matches, match_counter |-> match_counter]
    ELSE IF dedupe /\ \E k \in 1..Len(term_matches) :
                          term_matches[k].clause_id = candidates[i].clause_id
    THEN AddCandidates(eng, term, candidates, i + 1, match_counter, term_matches, dedupe)
    ELSE AddCandidates(eng, term, candidates, i + 1, Increment(match_counter),
             Append(term_matches,
                    CreateMatch(eng, Increment(match_counter), term,
                                ClauseOf(candidates[i].clause_id),
                                candidates[i].method, candidates[i].confidence)),
             dedupe)

\* _align_term
AlignTerm(eng, term, clauses, match_counter) ==
    LET rule == AddCandidates(eng, term, RuleMatch(term, clauses), 1, match_counter,
                              <<>>, FALSE)
        semantic == NeedsSemantic(eng, rule.term_matches)
        both == IF semantic
                THEN AddCandidates(eng, term,
                                   SemanticMatch(eng.semantic_matcher, term, clauses), 1,
                                   rule.match_counter, rule.term_matches, TRUE)
                ELSE rule
    IN  [term_matches |-> SortDesc(both.term_matches),
         match_counter |-> both.match_counter,
         semantic |-> semantic]

\* the loop of align over the terms (lines 82-94)
RECURSIVE AlignTerms(_, _, _, _, _)
AlignTerms(eng, terms, clauses, i, acc) ==
    IF i > Len(terms) THEN acc
    ELSE LET term == TermOf(terms[i])
             r == AlignTerm(eng, term, clauses, acc.match_counter)
         IN  AlignTerms(eng, terms, clauses, i + 1,
                 [match_counter |-> r.match_counter,
                  matches |-> AcceptedMatches(acc.matches, r.term_matches),
                  matched_clause_ids |->
                      MatchedClauseIds(acc.matched_clause_ids, r.term_matches),
                  unmatched_terms |->
                      UnmatchedTerms(acc.unmatched_terms, r.term_matches, term),
                  sem_calls |-> IF r.semantic THEN Append(acc.sem_calls, term.id)
                                ELSE acc.sem_calls])

\* align
AlignSolo(eng, a) ==
    LET applied == IF ConfigGiven(a.config) THEN ApplyConfig(eng, a.config)
                   ELSE [engine |-> eng, raised |-> FALSE]
        acc == AlignTerms(applied.engine, a.terms, a.clauses, 1,
                   [match_counter |-> 0, matches |-> <<>>, matched_clause_ids |-> {},
                    unmatched_terms |-> <<>>, sem_calls |-> <<>>])
    IN  IF applied.raised
        THEN [raised |-> TRUE, result |-> NoResult, sem_calls |-> <<>>,
              engine |-> [applied.engine EXCEPT !.match_counter = 0]]
        ELSE [raised |-> FALSE,
              result |-> [matches |-> acc.matches,
                          unmatched_terms |-> acc.unmatched_terms,
                          unmatched_clauses |->
                              UnmatchedClauses(a.clauses, acc.matched_clause_ids, 1)],
              sem_calls |-> acc.sem_calls,
              engine |-> [applied.engine EXCEPT !.match_counter = acc.match_counter]]

\* a call of one caller alone proceeds, step by step, to the outcome of align
StepsAgreeWithAlign ==
    \A t \in Threads :
        /\ pc[t] = "done" =>
              LET solo == AlignSolo(start_engine[t], args[t])
              IN  /\ ~solo.raised
                  /\ result[t] = solo.result
                  /\ sem_calls[t] = solo.sem_calls
                  /\ Eng(t) = solo.engine
        /\ pc[t] = "raised" =>
              LET solo == AlignSolo(start_engine[t], args[t])
              IN  solo.raised /\ Eng(t) = solo.engine

(***************************************************************************)
(* Properties of the result of align                                       *)
(***************************************************************************)
Returned(t) == t \in Threads /\ pc[t] = "done"

\* some match of the result is for the term
TermHasMatch(t, term_id) ==
    \E k \in 1..Len(result[t].matches) : result[t].matches[k].ts_term_id = term_id

\* the entries of unmatched_terms whose text mentions the term id
EntriesMentioning(t, term_id) ==
    {k \in 1..Len(result[t].unmatched_terms) :
        Contains(result[t].unmatched_terms[k], term_id)}

\* neither matcher has a candidate for the term among the supplied clauses
NoCandidates(t, term_id) ==
    /\ RuleMatch(TermOf(term_id), args[t].clauses) = <<>>
    /\ SemanticMatch(Eng(t).semantic_matcher, TermOf(term_id), args[t].clauses) = <<>>

\* the clause ids the matches of the result refer to
ReferencedClauses(t) ==
    {result[t].matches[k].clause_id : k \in 1..Len(result[t].matches)}

\* C1: for every term passed to align, the result has a match for the term
\* or an unmatched_terms entry mentioning its id, never both and never
\* neither; a term without any candidate is mentioned by exactly one entry
\* and has no match.
C1_TermMatchedOrUnmatched ==
    \A t \in Threads :
        Returned(t) =>
            \A i \in 1..Len(args[t].terms) :
                LET term_id == args[t].terms[i]
                IN  /\ TermHasMatch(t, term_id) # (EntriesMentioning(t, term_id) # {})
                    /\ NoCandidates(t, term_id) =>
                          /\ Cardinality(EntriesMentioning(t, term_id)) = 1
                          /\ ~TermHasMatch(t, term_id)

\* a call of two terms returned: one has a match, the other has no
\* candidate and is in unmatched_terms
C1_Witness ==
    \E t \in Threads :
        /\ Returned(t)
        /\ Len(args[t].terms) = 2
        /\ \E i, j \in 1..2 :
              /\ TermHasMatch(t, args[t].terms[i])
              /\ NoCandidates(t, args[t].terms[j])
              /\ EntriesMentioning(t, args[t].terms[j]) # {}

\* C2: a supplied clause is in unmatched_clauses exactly if no match of the
\* result refers to it: unmatched_clauses is the supplied clauses less the
\* clauses of the accepted matches.
C2_UnmatchedClausesAreTheDifference ==
    \A t \in Threads :
        Returned(t) =>
            /\ \A i \in 1..Len(args[t].clauses) :
                  (args[t].clauses[i] \in SeqToSet(result[t].unmatched_clauses))
                      <=> (args[t].clauses[i] \notin ReferencedClauses(t))
            /\ SeqToSet(result[t].unmatched_clauses)
                  = SeqToSet(args[t].clauses) \ ReferencedClauses(t)

\* a call with two clauses returned: one is matched, the other unmatched
C2_Witness ==
    \E t \in Threads :
        /\ Returned(t)
        /\ Len(args[t].clauses) = 2
        /\ Len(result[t].unmatched_clauses) = 1
        /\ ReferencedClauses(t) # {}

\* C3: every match of the result has a confidence from 0.0 to 1.0, whatever
\* the embedding model and the vector-search backend do, the similarities
\* the backend returns included.
C3_ConfidenceInUnitInterval ==
    \A t \in Threads :
        Returned(t) =>
            \A k \in 1..Len(result[t].matches) :
                /\ 0 <= result[t].matches[k].confidence
                /\ result[t].matches[k].confidence <= Scale

\* C4: every match of the result refers to a clause passed to the call,
\* also when the candidates come from the vector-search backend.
C4_MatchesReferToSuppliedClauses ==
    \A t \in Threads :
        Returned(t) => ReferencedClauses(t) \subseteq SeqToSet(args[t].clauses)

\* the backend answered a query of the call with a row naming a clause that
\* was not supplied, and the call returned a match found by the backend
C4_Witness ==
    \E t \in Threads :
        /\ Returned(t)
        /\ sem_calls[t] # <<>>
        /\ Eng(t).semantic_matcher.embedding_model = "encoder"
        /\ ~Eng(t).semantic_matcher.db_connection.raises
        /\ \E k \in 1..Len(Eng(t).semantic_matcher.db_connection.rows) :
              Eng(t).semantic_matcher.db_connection.rows[k].clause_id
                  \notin SeqToSet(args[t].clauses)
        /\ \E k \in 1..Len(result[t].matches) :
              result[t].matches[k].match_method = "semantic"

\* the times the semantic matcher was invoked for the term in the call
SemanticCalls(t, term_id) ==
    Cardinality({k \in 1..Len(sem_calls[t]) : sem_calls[t][k] = term_id})

\* C5: during align the semantic matcher is invoked for a term only if the
\* rule matcher has no candidate for it or the best rule-based confidence is
\* below the confidence threshold; with the best rule-based confidence at or
\* above the threshold it is invoked zero times for the term.
C5_SemanticOnlyBelowThreshold ==
    \A t \in Threads :
        pc[t] \notin {"idle", "config", "raised"} =>
            \A i \in 1..Len(args[t].terms) :
                LET term_id == args[t].terms[i]
                    rule == RuleMatch(TermOf(term_id), args[t].clauses)
                IN  /\ SemanticCalls(t, term_id) > 0 =>
                          \/ rule = <<>>
                          \/ rule[1].confidence < Eng(t).confidence_threshold
                    /\ (rule # <<>> /\ rule[1].confidence >= Eng(t).confidence_threshold)
                          => SemanticCalls(t, term_id) = 0

\* a call returned in which the best rule-based confidence of one term
\* equals the threshold, and the semantic matcher was invoked for another
\* term only
C5_Witness ==
    \E t \in Threads :
        /\ Returned(t)
        /\ sem_calls[t] # <<>>
        /\ \E i \in 1..Len(args[t].terms) :
              LET rule == RuleMatch(TermOf(args[t].terms[i]), args[t].clauses)
              IN  /\ rule # <<>>
                  /\ rule[1].confidence = Eng(t).confidence_threshold
                  /\ SemanticCalls(t, args[t].terms[i]) = 0

\* the threshold configured for the category of the term, if there is one,
\* and the global confidence threshold otherwise
CategoryOrGlobalThreshold(t, term_id) == ReviewThreshold(Eng(t), TermOf(term_id))

HasCategoryThreshold(t, term_id) ==
    TermOf(term_id).category \in DOMAIN Eng(t).review_thresholds_by_category

\* C6 as the specification states it: with a per-category threshold
\* configured for the category of a term, the semantic matcher is run for
\* the term exactly if the best rule-based confidence is below that
\* per-category threshold (or there is no rule candidate); the global
\* threshold decides only for the other categories.
C6_CategoryThresholdDecidesSemantic ==
    \A t \in Threads :
        Returned(t) =>
            \A i \in 1..Len(args[t].terms) :
                LET term_id == args[t].terms[i]
                    rule == RuleMatch(TermOf(term_id), args[t].clauses)
                IN  (SemanticCalls(t, term_id) > 0)
                        <=> (IF rule = <<>> THEN TRUE
                             ELSE rule[1].confidence
                                      < CategoryOrGlobalThreshold(t, term_id))

\* C6: a per-category threshold is a review threshold.  For a term whose
\* category has one, the semantic matcher is run exactly if there is no rule
\* candidate or the best rule-based confidence is below the global
\* confidence threshold, and the per-category threshold decides the
\* needs_review flag of the matches of the term.
C6_GlobalThresholdDecidesSemantic ==
    \A t \in Threads :
        Returned(t) =>
            \A i \in 1..Len(args[t].terms) :
                LET term_id == args[t].terms[i]
                    rule == RuleMatch(TermOf(term_id), args[t].clauses)
                IN  HasCategoryThreshold(t, term_id) =>
                        /\ (SemanticCalls(t, term_id) > 0)
                              <=> (IF rule = <<>> THEN TRUE
                                   ELSE rule[1].confidence < Eng(t).confidence_threshold)
                        /\ \A k \in 1..Len(result[t].matches) :
                              result[t].matches[k].ts_term_id = term_id =>
                                  (result[t].matches[k].needs_review
                                      <=> result[t].matches[k].confidence
                                              < CategoryOrGlobalThreshold(t, term_id))

\* a call returned in which the two thresholds of a term disagree about its
\* best rule-based confidence: at or above the per-category threshold and
\* below the global one, and the semantic matcher was run for the term
C6_Witness ==
    \E t \in Threads :
        /\ Returned(t)
        /\ \E i \in 1..Len(args[t].terms) :
              LET term_id == args[t].terms[i]
                  rule == RuleMatch(TermOf(term_id), args[t].clauses)
              IN  /\ HasCategoryThreshold(t, term_id)
                  /\ rule # <<>>
                  /\ rule[1].confidence >= CategoryOrGlobalThreshold(t, term_id)
                  /\ rule[1].confidence < Eng(t).confidence_threshold
                  /\ SemanticCalls(t, term_id) > 0
                  /\ TermHasMatch(t, term_id)

\* C7: align run twice on one engine with the same terms, clauses and
\* configuration gives matches with the same (term_id, clause_id, method,
\* action) tuples in the same order, and the same unmatched_terms and
\* unmatched_clauses.
C7_RepeatedCallSameOutline ==
    \A t \in Threads :
        (Returned(t) /\ prev[t].some) => Outline(result[t]) = prev[t].outline

\* a call with a configuration was repeated and returned, with a match and
\* an unmatched term in its result
C7_Witness ==
    \E t \in Threads :
        /\ Returned(t)
        /\ prev[t].some
        /\ ConfigGiven(args[t].config)
        /\ result[t].matches # <<>>
        /\ result[t].unmatched_terms # <<>>

\* the settings of an engine: all its fields but the match counter
Settings(eng) ==
    [confidence_threshold |-> eng.confidence_threshold,
     similarity_threshold |-> eng.semantic_matcher.similarity_threshold,
     action_policies |-> eng.action_policies,
     review_thresholds_by_category |-> eng.review_thresholds_by_category]

\* C8 as the specification states it: the two thresholds, the action
\* policies and the review thresholds of the engine are the same after
\* align returns as before it.
C8_AlignLeavesSettings ==
    \A t \in Threads :
        Returned(t) => Settings(Eng(t)) = Settings(start_engine[t])

\* C8: when align returns, each setting whose key the config carries has the
\* value of the config, and every other setting is as it was before the
\* call; with config omitted or empty no setting has changed.
C8_AlignKeepsConfigOnEngine ==
    \A t \in Threads :
        Returned(t) =>
            LET config == args[t].config
                keys == IF ConfigGiven(config) THEN config.keys ELSE {}
                now == Settings(Eng(t))
                before == Settings(start_engine[t])
            IN  /\ now.confidence_threshold =
                      IF "confidence_threshold" \in keys
                      THEN config.confidence_threshold ELSE before.confidence_threshold
                /\ now.similarity_threshold =
                      IF "semantic_threshold" \in keys
                      THEN config.semantic_threshold ELSE before.similarity_threshold
                /\ now.action_policies =
                      IF "action_policies_by_category" \in keys
                      THEN config.action_policies_by_category ELSE before.action_policies
                /\ now.review_thresholds_by_category =
                      IF "review_thresholds_by_category" \in keys
                      THEN config.review_thresholds_by_category
                      ELSE before.review_thresholds_by_category

\* a call returned whose config carried the confidence threshold only, on
\* an engine with action policies from an earlier call: the threshold has
\* changed and the policies are still there
C8_Witness ==
    \E t \in Threads :
        /\ Returned(t)
        /\ args[t].config.keys = {"confidence_threshold"}
        /\ Eng(t).confidence_threshold # start_engine[t].confidence_threshold
        /\ Eng(t).action_policies # EmptyMap

\* C9: two align calls running at the same time on two engines return,
\* whatever the interleaving of their steps, the results each has alone.
C9_TwoEnginesAsAlone ==
    \A t \in Threads :
        /\ Returned(t) =>
              LET solo == AlignSolo(start_engine[t], args[t])
              IN  ~solo.raised /\ result[t] = solo.result
        /\ pc[t] = "raised" => AlignSolo(start_engine[t], args[t]).raised

\* both callers returned matches, each on its own engine, from calls that
\* overlapped
C9_Witness ==
    /\ \A t \in ThreadIds :
          /\ Returned(t)
          /\ overlapped[t]
          /\ Len(result[t].matches) = 2
    /\ engine_of[1] # engine_of[2]

\* C10: calls on one engine interfere only by overlapping: a call that no
\* other caller's action overlaps returns the result it has alone.  (That
\* overlapping calls do interfere is what C10_Witness reaches.)
C10_AloneUnlessOverlapped ==
    \A t \in Threads :
        (Returned(t) /\ ~overlapped[t]) =>
            result[t] = AlignSolo(start_engine[t], args[t]).result

\* a call overlapped by another on the same engine returned two matches
\* with the same id
C10_Witness ==
    \E t \in Threads :
        /\ Returned(t)
        /\ overlapped[t]
        /\ \A u \in Threads : engine_of[u] = engine_of[t]
        /\ \E i, j \in 1..Len(result[t].matches) :
              i # j /\ result[t].matches[i].id = result[t].matches[j].id

\* the counter values of the ids of the matches of a result, in order
MatchCounters(r) == [k \in 1..Len(r.matches) |-> r.matches[k].id]

\* C11: in the result of an align run that no other run on the engine
\* overlaps, the match ids are pairwise distinct and strictly increasing in
\* the order of result.matches; the counter is reset on entry, so the ids
\* are those of the run computed from its inputs alone, whatever the engine
\* ran before.
C11_IdsIncreaseAndRepeat ==
    \A t \in Threads :
        (Returned(t) /\ ~overlapped[t]) =>
            LET ids == MatchCounters(result[t])
            IN  /\ \A i, j \in 1..Len(ids) :
                      i < j => /\ ids[i] < ids[j]
                               /\ FormatMatchId(ids[i]) # FormatMatchId(ids[j])
                /\ ids = MatchCounters(AlignSolo(start_engine[t], args[t]).result)
                /\ start_engine[t].match_counter = 0

\* a repeated run returned two matches whose ids are not 1 and 2: the
\* engine had counted the matches of the run before, and the best match of
\* a term is not the first created for it
C11_Witness ==
    \E t \in Threads :
        /\ Returned(t)
        /\ prev[t].some
        /\ Len(result[t].matches) = 2
        /\ result[t].matches[1].id > 1
        /\ FormatMatchId(result[t].matches[2].id) = "match_0003"

\* the current values of SegmentValues that are placeholders: two or more
\* underscores, a bracketed token, two or more X, a text starting with YYYY
\* (spaces around the value do not count)
PlaceholderValues == {"____", " ____ ", "[amount]", "[]", "XX", "XXXX", "YYYY-MM-DD"}

\* the term of a _classify_action call has no action policy on the engine
NoPolicyCall(t) ==
    /\ probe.op = "_classify_action"
    /\ TermOf(probe.input[1]).category \notin DOMAIN Eng(t).action_policies

\* C12: without an action policy for the category of the term,
\* _classify_action returns OVERRIDE exactly if there is a fillable segment
\* whose current value is non-empty and not a placeholder, and INSERT
\* otherwise (placeholder, empty or no current value, no segment); with or
\* without a policy it never returns SKIP.
C12_OverrideExactlyForRealValue ==
    \A t \in Threads :
        probe.op = "_classify_action" =>
            LET fillable_segment == probe.input[2]
                real_value == /\ fillable_segment # NoSegment
                              /\ fillable_segment.current_value
                                     \notin {NoValue, ""} \cup PlaceholderValues
            IN  /\ probe.output \in {"insert", "override"}
                /\ NoPolicyCall(t) =>
                       probe.output = IF real_value THEN "override" ELSE "insert"

\* _classify_action was called for the investment amount term, without a
\* policy, with a segment holding "USD 5,000,000", and returned OVERRIDE
C12_Witness ==
    \E t \in Threads :
        /\ NoPolicyCall(t)
        /\ TermOf(probe.input[1]).category = "investment_amount"
        /\ probe.input[2] = SegmentWith("USD 5,000,000")
        /\ probe.output = "override"

\* the matches a call has created so far and those of its result
CreatedMatches(t) ==
    SeqToSet(frame[t].term_matches) \cup SeqToSet(frame[t].matches)
        \cup SeqToSet(result[t].matches)

\* the action policy the engine holds for the term of the match, if any
PolicyOf(t, m) ==
    LET category == TermOf(m.ts_term_id).category
    IN  IF category \in DOMAIN Eng(t).action_policies
        THEN Eng(t).action_policies[category] ELSE NoValue

\* the current value of the fillable segment the match selected
SegmentValueOf(m) ==
    LET segments == ClauseOf(m.clause_id).fillable_segments
        k == CHOOSE i \in 1..Len(segments) : segments[i].id = m.fillable_segment_id
    IN  IF m.fillable_segment_id = NoValue THEN NoValue ELSE segments[k].current_value

\* C13: if the configuration maps the category of a term to the policy
\* "insert" or "override", every match created for a term of that category
\* has that action, whatever clause and fillable segment it has.
C13_PolicyDecidesAction ==
    \A t \in Threads :
        pc[t] \notin {"idle", "config", "raised"} =>
            \A m \in CreatedMatches(t) :
                PolicyOf(t, m) \in {"insert", "override"} => m.action = PolicyOf(t, m)

\* a call configured with policies returned a match whose policy is
\* "insert" though its segment holds a real value, or "override" though it
\* holds the placeholder "____"
C13_Witness ==
    \E t \in Threads :
        /\ Returned(t)
        /\ "action_policies_by_category" \in args[t].config.keys
        /\ \E k \in 1..Len(result[t].matches) :
              LET m == result[t].matches[k]
              IN  \/ /\ PolicyOf(t, m) = "override"
                     /\ SegmentValueOf(m) = "____"
                     /\ m.action = "override"
                  \/ /\ PolicyOf(t, m) = "insert"
                     /\ SegmentValueOf(m) = " 2x "
                     /\ m.action = "insert"

\* C14: every match of a result has needs_review set exactly if its
\* confidence is below the review threshold configured for the category of
\* its term or, with none configured for that category, below the global
\* confidence threshold.
C14_NeedsReviewBelowThreshold ==
    \A t \in Threads :
        Returned(t) =>
            \A k \in 1..Len(result[t].matches) :
                LET m == result[t].matches[k]
                    category == TermOf(m.ts_term_id).category
                    by_category == Eng(t).review_thresholds_by_category
                IN  m.needs_review <=>
                        IF category \in DOMAIN by_category
                        THEN m.confidence < by_category[category]
                        ELSE m.confidence < Eng(t).confidence_threshold

\* a call returned a match that the review threshold of its category flags
\* and the global threshold would not, or the other way round, next to a
\* match of a category without a review threshold
C14_Witness ==
    \E t \in Threads :
        /\ Returned(t)
        /\ \E k \in 1..Len(result[t].matches) :
              LET m == result[t].matches[k]
              IN  /\ HasCategoryThreshold(t, m.ts_term_id)
                  /\ m.needs_review # (m.confidence < Eng(t).confidence_threshold)
        /\ \E k \in 1..Len(result[t].matches) :
              LET m == result[t].matches[k]
              IN  ~HasCategoryThreshold(t, m.ts_term_id)

\* C15: a step of set_confidence_threshold or set_similarity_threshold with
\* a value outside [0, 1] raises ValueError and leaves both thresholds as
\* they were; with a value inside [0, 1] it raises nothing and the matching
\* getter returns exactly that value afterwards, the other threshold being
\* untouched.
C15_SettersRejectOrStore ==
    [][\A t \in Threads :
          LET before == engines[engine_of[t]]
              after == engines'[engine_of[t]]
              in_range == 0 <= probe'.input /\ probe'.input <= Scale
              unchanged(get_own, get_other) ==
                  /\ probe'.output = "ValueError"
                  /\ get_own[2] = get_own[1]
                  /\ get_other[2] = get_other[1]
              stored(get_own, get_other) ==
                  /\ probe'.output = NoValue
                  /\ get_own[2] = probe'.input
                  /\ get_other[2] = get_other[1]
              confidence == <<GetConfidenceThreshold(before), GetConfidenceThreshold(after)>>
              similarity == <<GetSimilarityThreshold(before.semantic_matcher),
                              GetSimilarityThreshold(after.semantic_matcher)>>
          IN  /\ (probe' # probe /\ probe'.op = "set_confidence_threshold") =>
                     IF in_range THEN stored(confidence, similarity)
                     ELSE unchanged(confidence, similarity)
              /\ (probe' # probe /\ probe'.op = "set_similarity_threshold") =>
                     IF in_range THEN stored(similarity, confidence)
                     ELSE unchanged(similarity, confidence)]_vars

\* set_confidence_threshold has raised ValueError on an engine whose
\* confidence threshold an earlier call had set to 1.0, and the engine still
\* holds 1.0
C15_Witness ==
    \E t \in Threads :
        /\ probe.op = "set_confidence_threshold"
        /\ probe.input > Scale
        /\ probe.output = "ValueError"
        /\ GetConfidenceThreshold(Eng(t)) = Scale

\* C16: in every state each threshold the engine holds, the global
\* confidence threshold, the similarity threshold of the semantic matcher
\* and every per-category review threshold, lies in [0, 1]: an out-of-range
\* value is rejected wherever it is supplied.
C16_ThresholdsInUnitInterval ==
    \A e \in DOMAIN engines :
        /\ 0 <= engines[e].confidence_threshold
        /\ engines[e].confidence_threshold <= Scale
        /\ 0 <= engines[e].semantic_matcher.similarity_threshold
        /\ engines[e].semantic_matcher.similarity_threshold <= Scale
        /\ \A category \in DOMAIN engines[e].review_thresholds_by_category :
              /\ 0 <= engines[e].review_thresholds_by_category[category]
              /\ engines[e].review_thresholds_by_category[category] <= Scale

\* the term embedding cannot be produced: no model, or encode raises
NoTermEmbedding(t, term_id) ==
    ~GenerateEmbedding(Eng(t).semantic_matcher, TermOf(term_id).raw_text).some

\* the call of t is at a place where one of its steps can be taken: the
\* next line of align or of _align_term, or the next round of a loop
CallCanStep(t) ==
    IF pc[t] \in {"rule_loop", "semantic_loop"}
    THEN IF frame[t].pending = <<>> THEN TRUE
         ELSE IF IsDuplicate(t) THEN TRUE
         ELSE Counter(t) < MaxCounter
    ELSE pc[t] \in {"config", "term", "rule_store", "semantic_store", "rule_id",
                    "semantic_id"}

\* a call that raised had an out-of-range threshold in its config, and a
\* call that returned settled the terms without embedding by the rules
RaisedOrSettledByRules(t) ==
        /\ pc[t] = "raised" =>
              LET config == args[t].config
              IN  \/ /\ "confidence_threshold" \in config.keys
                     /\ ~(0 <= config.confidence_threshold
                           /\ config.confidence_threshold <= Scale)
                  \/ /\ "semantic_threshold" \in config.keys
                     /\ ~(0 <= config.semantic_threshold
                           /\ config.semantic_threshold <= Scale)
        /\ Returned(t) =>
              \A i \in 1..Len(args[t].terms) :
                  LET term_id == args[t].terms[i]
                      rule == RuleMatch(TermOf(term_id), args[t].clauses)
                  IN  NoTermEmbedding(t, term_id) =>
                          IF rule = <<>> THEN ~TermHasMatch(t, term_id)
                          ELSE \E k \in 1..Len(result[t].matches) :
                                  LET m == result[t].matches[k]
                                  IN  /\ m.ts_term_id = term_id
                                      /\ m.clause_id = rule[1].clause_id
                                      /\ m.match_method = rule[1].method
                                      /\ m.confidence = rule[1].confidence

\* C17: whatever the embedding model and the vector-search backend do
\* (raise, be absent, return no rows), an align call goes on to its return:
\* it raises only if its config carries an out-of-range confidence or
\* semantic threshold, and otherwise it is never stopped short of returning
\* a result; a term whose embedding cannot be produced is settled from the
\* rule candidates alone (its best rule candidate, or unmatched).
C17_AlignReturnsWhateverBackendsDo ==
    \A t \in Threads :
        /\ RaisedOrSettledByRules(t)
        /\ InCall(t) => CallCanStep(t)

\* a call returned a rule match for a term for which the semantic matcher
\* was invoked with an embedding model that raises and a backend that raises
C17_Witness ==
    \E t \in Threads :
        /\ Returned(t)
        /\ Eng(t).semantic_matcher.embedding_model = "broken"
        /\ Eng(t).semantic_matcher.db_connection.raises
        /\ \E i \in 1..Len(args[t].terms) :
              /\ SemanticCalls(t, args[t].terms[i]) > 0
              /\ TermHasMatch(t, args[t].terms[i])

\* C18: a semantic matcher without embedding model is not available, its
\* match returns the empty list for every term and every clause list and
\* does not reach the vector-search backend, whatever rows that would
\* return; an align call on such an engine gives every term its best rule
\* candidate, or no match if it has none.
C18_NoModelNoSemanticMatching ==
    \A t \in Threads :
        LET sm == Eng(t).semantic_matcher
        IN  sm.embedding_model = NoValue =>
                /\ ~IsAvailable(sm)
                /\ \A term_id \in TermIds, clauses \in ClauseLists :
                      /\ SemanticMatch(sm, TermOf(term_id), clauses) = <<>>
                      /\ ~BackendQueried(sm, TermOf(term_id), clauses)
                /\ Returned(t) =>
                      \A i \in 1..Len(args[t].terms) :
                          LET term_id == args[t].terms[i]
                              rule == RuleMatch(TermOf(term_id), args[t].clauses)
                              of_term == {k \in 1..Len(result[t].matches) :
                                             result[t].matches[k].ts_term_id = term_id}
                          IN  IF rule = <<>> THEN of_term = {}
                              ELSE /\ Cardinality(of_term) = 1
                                   /\ \A k \in of_term :
                                         /\ result[t].matches[k].clause_id = rule[1].clause_id
                                         /\ result[t].matches[k].match_method = rule[1].method
                                         /\ result[t].matches[k].confidence
                                                = rule[1].confidence

\* an engine without embedding model and with a backend whose rows name a
\* supplied clause returned from a call in which the semantic matcher was
\* invoked for a term: the term is left unmatched
C18_Witness ==
    \E t \in Threads :
        /\ Returned(t)
        /\ Eng(t).semantic_matcher.embedding_model = NoValue
        /\ MapRows(Eng(t).semantic_matcher.db_connection.rows, args[t].clauses, 1) # <<>>
        /\ sem_calls[t] # <<>>
        /\ result[t].matches = <<>>
        /\ result[t].unmatched_terms # <<>>

\* the candidates a call of RuleBasedMatcher.match returned for the clause at
\* position i of its list
CandidatesFor(i) ==
    {k \in 1..Len(probe.output) : probe.output[k].clause = probe.input[2][i]}

\* C19 as stated: for every term and clause whose titles are equal ignoring
\* case, RuleBasedMatcher.match returns for that clause a candidate with
\* method rule-title and confidence >= 0.95.
C19_EqualTitlesGiveRuleTitle ==
    probe.op = "match" =>
        \A i \in 1..Len(probe.input[2]) :
            Lower(probe.input[1].title) = Lower(probe.input[2][i].title) =>
                \E k \in CandidatesFor(i) :
                    /\ probe.output[k].method = "rule_title"
                    /\ probe.output[k].confidence >= 9500

\* C19 amended: for every term and clause whose titles are not empty and are
\* equal ignoring case, RuleBasedMatcher.match returns for that clause
\* exactly one candidate, with method rule-title and confidence 0.95; for a
\* term and a clause both without title it returns no rule-title candidate.
C19_NonEmptyEqualTitlesGiveRuleTitle ==
    probe.op = "match" =>
        \A i \in 1..Len(probe.input[2]) :
            LET term_title == probe.input[1].title
                clause_title == probe.input[2][i].title
            IN  /\ (term_title # "" /\ Lower(term_title) = Lower(clause_title)) =>
                      /\ Cardinality(CandidatesFor(i)) = 1
                      /\ \A k \in CandidatesFor(i) :
                            /\ probe.output[k].method = "rule_title"
                            /\ probe.output[k].confidence = 9500
                /\ (term_title = "" /\ clause_title = "") =>
                      \A k \in CandidatesFor(i) : probe.output[k].method # "rule_title"

\* match was called for a term and two clauses; the second clause has the
\* term's title in capitals and a category the term's does not map to, and
\* comes first in the result with rule-title and 0.95
C19_Witness ==
    /\ probe.op = "match"
    /\ Len(probe.input[2]) = 2
    /\ probe.input[1].title = "Anti-Dilution"
    /\ probe.input[2][2].title = "ANTI-DILUTION"
    /\ probe.input[2][2].category = "definitions"
    /\ Len(probe.output) >= 1
    /\ probe.output[1].clause = probe.input[2][2]
    /\ probe.output[1].method = "rule_title"
    /\ probe.output[1].confidence = 9500

\* the term's category maps to the clause's category in the category map
CategoryMapped(term, clause) ==
    clause.category \in SeqToSet(GetExpectedClauseCategories(term.category))

\* the keywords of the clause found in the raw text of the term, case ignored
KeywordsFound(term, clause) ==
    Cardinality({j \in 1..Len(clause.keywords) :
                    Contains(Lower(term.raw_text), Lower(clause.keywords[j]))})

\* C20 as stated: for a term whose category maps to the clause's category
\* and which has no title overlap and no rule-table keyword hit with the
\* clause, RuleBasedMatcher.match returns a candidate for that clause with
\* method rule-keyword and confidence min(0.8, 0.6 + 0.05 per clause keyword
\* found in the term's raw text), within [0.6, 0.8]; a clause whose category
\* is not mapped from the term's category gets no rule-keyword candidate.
C20_CategoryFallback ==
    probe.op = "match" =>
        \A i \in 1..Len(probe.input[2]) :
            LET term == probe.input[1]
                clause == probe.input[2][i]
            IN  (MatchByTitle(term, clause) = 0 /\ MatchByKeyword(term, clause) = 0) =>
                    IF CategoryMapped(term, clause)
                    THEN \E k \in CandidatesFor(i) :
                            /\ probe.output[k].method = "rule_keyword"
                            /\ probe.output[k].confidence
                                   = Min(8000, 6000 + 500 * KeywordsFound(term, clause))
                            /\ probe.output[k].confidence \in 6000..8000
                    ELSE \A k \in CandidatesFor(i) :
                            probe.output[k].method # "rule_keyword"

\* C20 amended: when none of the title, section-number and rule-keyword
\* strategies yields a candidate for a term and a clause, a clause whose
\* category the term's category maps to gets exactly one candidate, with
\* method rule-keyword and confidence min(0.8, 0.6 + 0.05 per clause keyword
\* found in the term's raw text), within [0.6, 0.8], and a clause of any
\* other category gets no candidate.
C20_CategoryFallbackAfterNumber ==
    probe.op = "match" =>
        \A i \in 1..Len(probe.input[2]) :
            LET term == probe.input[1]
                clause == probe.input[2][i]
            IN  (/\ MatchByTitle(term, clause) <= 5000
                 /\ MatchByNumber(term, clause) <= 5000
                 /\ MatchByKeyword(term, clause) <= 5000) =>
                    IF CategoryMapped(term, clause)
                    THEN /\ Cardinality(CandidatesFor(i)) = 1
                         /\ \A k \in CandidatesFor(i) :
                               /\ probe.output[k].method = "rule_keyword"
                               /\ probe.output[k].confidence
                                      = Min(8000, 6000 + 500 * KeywordsFound(term, clause))
                               /\ probe.output[k].confidence \in 6000..8000
                    ELSE CandidatesFor(i) = {}

\* match was called for a board_seats term without section number and two
\* clauses: an investment_terms clause, which gets no candidate, and a
\* governance clause with five keywords, all in the term's text, which gets
\* the one candidate, rule-keyword with the capped confidence 0.8
C20_Witness ==
    /\ probe.op = "match"
    /\ probe.input[1].category = "board_seats"
    /\ MatchByNumber(probe.input[1], ClauseOf("clause_004")) = 0
    /\ Len(probe.input[2]) = 2
    /\ probe.input[2][1] = ClauseOf("clause_001")
    /\ probe.input[2][2].category = "governance"
    /\ KeywordsFound(probe.input[1], probe.input[2][2]) = 5
    /\ probe.output = <<[clause |-> probe.input[2][2], method |-> "rule_keyword",
                         confidence |-> 8000]>>

\* the outcome the order of the strategies prescribes for a term and a clause
FirstClearing(term, clause) ==
    IF MatchByTitle(term, clause) > 5000
        THEN [method |-> "rule_title", confidence |-> MatchByTitle(term, clause)]
    ELSE IF MatchByNumber(term, clause) > 5000
        THEN [method |-> "rule_number", confidence |-> MatchByNumber(term, clause)]
    ELSE IF MatchByKeyword(term, clause) > 5000
        THEN [method |-> "rule_keyword", confidence |-> MatchByKeyword(term, clause)]
    ELSE IF MatchByCategory(term, clause) > 4000
        THEN [method |-> "rule_keyword", confidence |-> MatchByCategory(term, clause)]
    ELSE NoMatch

\* C21: RuleBasedMatcher.match emits at most one candidate per clause, that
\* of the first strategy in the order title, section number, keyword table,
\* category fallback whose score clears its threshold (> 0.5, > 0.5, > 0.5,
\* > 0.4), also when a later strategy scores higher; a clause for which none
\* clears is omitted, and the list is sorted by confidence descending.
C21_FirstClearingStrategyWins ==
    probe.op = "match" =>
        /\ \A i \in 1..Len(probe.input[2]) :
              LET expected == FirstClearing(probe.input[1], probe.input[2][i])
              IN  IF expected = NoMatch THEN CandidatesFor(i) = {}
                  ELSE /\ Cardinality(CandidatesFor(i)) = 1
                       /\ \A k \in CandidatesFor(i) :
                             /\ probe.output[k].method = expected.method
                             /\ probe.output[k].confidence = expected.confidence
        /\ \A k \in 1..Len(probe.output) :
              /\ \E i \in 1..Len(probe.input[2]) : k \in CandidatesFor(i)
              /\ k > 1 => probe.output[k - 1].confidence >= probe.output[k].confidence

\* match was called for a term and two clauses: for the first the section
\* number scores 0.65 and the category fallback 0.8, for the second no
\* strategy clears; the result is the one candidate rule-number 0.65
C21_Witness ==
    /\ probe.op = "match"
    /\ Len(probe.input[2]) = 2
    /\ MatchByNumber(probe.input[1], probe.input[2][1]) = 6500
    /\ MatchByCategory(probe.input[1], probe.input[2][1]) = 8000
    /\ FirstClearing(probe.input[1], probe.input[2][2]) = NoMatch
    /\ probe.output = <<[clause |-> probe.input[2][1], method |-> "rule_number",
                         confidence |-> 6500]>>

\* the match was created for the candidate
MatchOfCandidate(match, candidate) ==
    /\ match.clause_id = candidate.clause_id
    /\ match.match_method = candidate.method
    /\ match.confidence = candidate.confidence

\* C22: when a term is settled, the merged list of its matches holds every
\* rule candidate, followed by the semantic candidates (if the semantic
\* matcher was run) whose clause id is not already in the list, so no clause
\* id occurs twice; the accepted match is one of maximal confidence in the
\* list, a rule candidate if one has that confidence; with an empty list no
\* match is accepted.
C22_MergedCandidatesBestAccepted ==
    [][\A t \in Threads :
          (pc[t] \in {"rule_loop", "semantic_loop"} /\ pc'[t] = "term") =>
              LET merged == frame[t].term_matches
                  rule == RuleMatch(Term(t), args[t].clauses)
                  semantic == IF pc[t] = "semantic_loop"
                              THEN SemanticMatch(Eng(t).semantic_matcher, Term(t),
                                                 args[t].clauses)
                              ELSE <<>>
                  fresh == {k \in 1..Len(semantic) :
                               /\ \A j \in 1..Len(rule) :
                                     rule[j].clause_id # semantic[k].clause_id
                               /\ \A j \in 1..(k - 1) :
                                     semantic[j].clause_id # semantic[k].clause_id}
              IN  /\ Len(merged) = Len(rule) + Cardinality(fresh)
                  /\ \A k \in 1..Len(rule) : MatchOfCandidate(merged[k], rule[k])
                  /\ \A k \in fresh :
                        /\ semantic[k].method = "semantic"
                        /\ \E j \in (Len(rule) + 1)..Len(merged) :
                              MatchOfCandidate(merged[j], semantic[k])
                  /\ \A a, b \in 1..Len(merged) :
                        a # b => merged[a].clause_id # merged[b].clause_id
                  /\ IF merged = <<>> THEN frame'[t].matches = frame[t].matches
                     ELSE \E j \in 1..Len(merged) :
                            /\ frame'[t].matches = Append(frame[t].matches, merged[j])
                            /\ \A k \in 1..Len(merged) :
                                  /\ merged[k].confidence <= merged[j].confidence
                                  /\ (k <= Len(rule)
                                        /\ merged[k].confidence = merged[j].confidence)
                                         => j <= Len(rule)]_vars

\* a call returned in which the semantic matcher was run for the term and
\* the backend named another clause with the similarity 0.65 of the term's
\* rule candidate: the rule candidate is the accepted match
C22_Witness ==
    \E t \in Threads :
        /\ Returned(t)
        /\ args[t].clauses = <<"clause_001", "clause_002">>
        /\ sem_calls[t] = args[t].terms
        /\ SemanticMatch(Eng(t).semantic_matcher, TermOf(args[t].terms[1]), args[t].clauses)
               = <<[clause_id |-> "clause_002", method |-> "semantic", confidence |-> 6500]>>
        /\ Len(result[t].matches) = 1
        /\ result[t].matches[1].clause_id = "clause_001"
        /\ result[t].matches[1].match_method = "rule_keyword"
        /\ result[t].matches[1].confidence = 6500

\* the score the section markers of a term and a clause call for: 0.75 for
\* an equal pair, else 0.65 for a pair in prefix relationship, else 0
NumberScore(term, clause) ==
    LET term_numbers == SeqToSet(ExtractSectionNumbers(term.raw_text))
        clause_numbers == SeqToSet(ExtractSectionNumbers(clause.section_id))
    IN  IF term_numbers \cap clause_numbers # {} THEN 7500
        ELSE IF \E a \in term_numbers, b \in clause_numbers :
                    StartsWith(a, b) \/ StartsWith(b, a)
             THEN 6500
        ELSE 0

\* C23: the section-number strategy scores 0.75 whenever some marker of the
\* term's raw text equals some marker of the clause's section id, 0.65 when
\* no pair is equal but some pair is in prefix relationship, and 0 otherwise,
\* whatever the order of the markers; a clause whose title does not clear
\* gets its rule-number candidate with that score.
C23_NumberScoreByBestPair ==
    probe.op = "match" =>
        \A i \in 1..Len(probe.input[2]) :
            LET term == probe.input[1]
                clause == probe.input[2][i]
            IN  /\ MatchByNumber(term, clause) = NumberScore(term, clause)
                /\ (MatchByTitle(term, clause) <= 5000 /\ NumberScore(term, clause) > 0) =>
                      \E k \in CandidatesFor(i) :
                          /\ probe.output[k].method = "rule_number"
                          /\ probe.output[k].confidence = NumberScore(term, clause)

\* the score of a segment for a term: 0.5 for a compatible type plus 0.5
\* times the fraction of the category's keywords found in the context
SegmentScore(term, segment) ==
    LET keywords == TermKeywords(term.category)
        total == Len(keywords.en) + keywords.n_zh
        context == Lower(segment.context_before \o " " \o segment.context_after)
        found == Cardinality({k \in 1..Len(keywords.en) : Contains(context, keywords.en[k])})
    IN  (IF segment.expected_type \in CategoryToTypes(term.category) THEN 5000 ELSE 0)
        + (IF total = 0 THEN 0 ELSE (5000 * found) \div total)

\* C24: _find_best_fillable_segment returns the segment with the highest
\* score, the earliest one on ties, when that score exceeds 0.3, and no
\* segment otherwise, also for a clause without segments; the score is 0.5
\* for a compatible type plus 0.5 times the fraction of the category's
\* keywords found in the context around the segment.
C24_BestSegmentAboveBar ==
    probe.op = "_find_best_fillable_segment" =>
        LET term == TermOf(probe.input[1])
            segments == probe.input[2]
            top == {i \in 1..Len(segments) :
                       \A j \in 1..Len(segments) :
                           SegmentScore(term, segments[j]) <= SegmentScore(term, segments[i])}
        IN  /\ \A i \in 1..Len(segments) :
                  ScoreSegmentForTerm(term, segments[i]) = SegmentScore(term, segments[i])
            /\ IF \E i \in top : SegmentScore(term, segments[i]) > 3000
               THEN \E i \in top : /\ \A j \in top : i <= j
                                   /\ probe.output = segments[i]
               ELSE probe.output = NoSegment

\* the segment search was called for the investment_amount term and two
\* segments of the score 0.8; it returned the first
C24_Witness ==
    /\ probe.op = "_find_best_fillable_segment"
    /\ TermOf(probe.input[1]).category = "investment_amount"
    /\ Len(probe.input[2]) = 2
    /\ SegmentScore(TermOf(probe.input[1]), probe.input[2][1]) = 8000
    /\ SegmentScore(TermOf(probe.input[1]), probe.input[2][2]) = 8000
    /\ probe.output = probe.input[2][1]

\* C25: every tuple SemanticMatcher.match returns to _align_term, on the
\* local path and on the vector-search path, has method semantic, a clause
\* among those supplied and a similarity between the configured similarity
\* threshold and 1.0; there are at most max_results of them, sorted by
\* similarity descending.
C25_SemanticResultsBounded ==
    \A t \in Threads :
        pc[t] = "semantic_loop" =>
            LET results == frame[t].pending
            IN  /\ Len(results) <= MaxResults
                /\ \A k \in 1..Len(results) :
                      /\ results[k].method = "semantic"
                      /\ results[k].clause_id \in SeqToSet(args[t].clauses)
                      /\ results[k].confidence
                             >= GetSimilarityThreshold(Eng(t).semantic_matcher)
                      /\ results[k].confidence <= Scale
                      /\ k > 1 => results[k - 1].confidence >= results[k].confidence

\* the matcher as it is without a vector-search backend
LocalMatcher(sm) == [sm EXCEPT !.db_connection = NoDb]

\* C26: with a vector-search backend configured, a call of
\* SemanticMatcher.match that reaches the backend returns the rows that name
\* a supplied clause when the backend answers, also when it answers with no
\* row, and returns what the matcher without a backend returns when the
\* backend raises; no error leaves the call.
C26_BackendRowsElseLocalRanking ==
    [][\A t \in Threads :
          (pc[t] = "rule_loop" /\ pc'[t] \in {"semantic_loop", "raised"}
             /\ BackendQueried(Eng(t).semantic_matcher, Term(t), args[t].clauses)) =>
              LET sm == Eng(t).semantic_matcher
              IN  /\ pc'[t] = "semantic_loop"
                  /\ frame'[t].pending =
                         IF sm.db_connection.raises
                         THEN SemanticMatch(LocalMatcher(sm), Term(t), args[t].clauses)
                         ELSE MapRows(sm.db_connection.rows, args[t].clauses, 1)]_vars

\* the backend raised and the call in progress works on the local ranking
C26_Witness ==
    \E t \in Threads :
        /\ pc[t] = "semantic_loop"
        /\ Eng(t).semantic_matcher.db_connection = BrokenDb
        /\ BackendQueried(Eng(t).semantic_matcher, Term(t), args[t].clauses)
        /\ frame[t].pending # <<>>
        /\ frame[t].pending =
               SemanticMatch(LocalMatcher(Eng(t).semantic_matcher), Term(t), args[t].clauses)

\* the term of a _classify_action call has an action policy on the engine
\* that is neither "insert" nor "override"
OtherPolicyCall(t) ==
    /\ probe.op = "_classify_action"
    /\ TermOf(probe.input[1]).category \in DOMAIN Eng(t).action_policies
    /\ Eng(t).action_policies[TermOf(probe.input[1]).category] \notin {"insert", "override"}

\* C27: with an action policy for the category of the term that is neither
\* "insert" nor "override", _classify_action returns what it returns for the
\* same term and segment on an engine without any policy, and raises nothing.
C27_OtherPolicyHasNoEffect ==
    \A t \in Threads :
        OtherPolicyCall(t) =>
            /\ probe.output \in {"insert", "override"}
            /\ probe.output = ClassifyAction(EmptyMap, TermOf(probe.input[1]),
                                             ClauseOf("clause_001"), probe.input[2])

\* _classify_action was called for a term whose category has the policy
\* "auto", with a segment holding "USD 5,000,000", and returned OVERRIDE
C27_Witness ==
    \E t \in Threads :
        /\ OtherPolicyCall(t)
        /\ Eng(t).action_policies[TermOf(probe.input[1]).category] = "auto"
        /\ probe.input[2] = SegmentWith("USD 5,000,000")
        /\ probe.output = "override"

\* the clauses of the documents with a fillable segment of the id
SegmentOwners(segment_id) ==
    {c \in ClauseIds : \E i \in DOMAIN ClauseOf(c).fillable_segments :
                          ClauseOf(c).fillable_segments[i].id = segment_id}

\* C28: every match of a result that carries a fillable_segment_id carries
\* the id of a fillable segment of the clause its clause_id names, of no
\* other clause, and it is the segment _find_best_fillable_segment finds for
\* the term and that clause.
C28_SegmentOfMatchedClause ==
    \A t \in Threads :
        Returned(t) =>
            \A k \in 1..Len(result[t].matches) :
                LET m == result[t].matches[k]
                IN  /\ m.fillable_segment_id # NoValue =>
                           SegmentOwners(m.fillable_segment_id) = {m.clause_id}
                    /\ m.fillable_segment_id =
                           FindBestFillableSegment(TermOf(m.ts_term_id),
                                                   ClauseOf(m.clause_id)).id

\* a result holds a match with a segment of its clause for a term that has
\* a segment in another supplied clause as well
C28_Witness ==
    \E t \in Threads :
        /\ Returned(t)
        /\ \E k \in 1..Len(result[t].matches) :
              LET m == result[t].matches[k]
              IN  /\ m.fillable_segment_id # NoValue
                  /\ SegmentOwners(m.fillable_segment_id) = {m.clause_id}
                  /\ \E i \in 1..Len(args[t].clauses) :
                        /\ args[t].clauses[i] # m.clause_id
                        /\ SegmentTable[m.ts_term_id, args[t].clauses[i]] # NoSegment

\* the matches and unmatched entries of the first n terms when each term is
\* aligned by a call of its own, with the match ids left out
RECURSIVE SettledAlone(_, _, _, _)
SettledAlone(eng, terms, clauses, n) ==
    IF n = 0 THEN [matches |-> <<>>, unmatched_terms |-> <<>>]
    ELSE LET before == SettledAlone(eng, terms, clauses, n - 1)
             term == TermOf(terms[n])
             alone == AlignTerm(eng, term, clauses, 0).term_matches
         IN  IF alone # <<>>
             THEN [before EXCEPT !.matches = Append(@, [alone[1] EXCEPT !.id = 0])]
             ELSE [before EXCEPT !.unmatched_terms =
                                     Append(@, CreateUnmatchedTermEntry(term))]

\* C29: the matches of a result, apart from their ids, and its unmatched
\* entries are those each term gets when it is aligned alone against the
\* same clauses on the same engine, in the order of the terms: one match or
\* one entry per term, whatever the other terms and their order.
C29_TermsSettledIndependently ==
    \A t \in Threads :
        Returned(t) =>
            LET alone == SettledAlone(Eng(t), args[t].terms, args[t].clauses,
                                      Len(args[t].terms))
            IN  /\ [k \in 1..Len(result[t].matches) |->
                        [result[t].matches[k] EXCEPT !.id = 0]] = alone.matches
                /\ result[t].unmatched_terms = alone.unmatched_terms

\* a result holds matches of two terms to the same clause
C29_Witness ==
    \E t \in Threads :
        /\ Returned(t)
        /\ Len(args[t].terms) = 2
        /\ Len(result[t].matches) = 2
        /\ result[t].matches[1].ts_term_id = args[t].terms[1]
        /\ result[t].matches[2].ts_term_id = args[t].terms[2]
        /\ result[t].matches[1].clause_id = result[t].matches[2].clause_id

\* C30: when align has raised on an out-of-range threshold of its config,
\* the two thresholds, the action policies and the review thresholds of the
\* engine are what they were when the call began.
C30_FailedAlignLeavesSettings ==
    \A t \in Threads :
        pc[t] = "raised" => Settings(Eng(t)) = Settings(start_engine[t])

====
